---- MODULE Spec2Model ----
(***************************************************************************)
(* A model of the dtree library (github.com/kerneldump/dtree): entropy     *)
(* based training of a binary decision tree (train.go), prediction        *)
(* (predict.go), validation and JSON persistence (serialize.go).          *)
(*                                                                         *)
(* Go values of type interface{} are records [t, s, n]: t is the dynamic   *)
(* type, s the payload of a string, n the payload of a number or boolean.  *)
(* A float64 is held as an integer number of 1/FloatUnit, so that numbers  *)
(* closer than the six decimals kept by trimFloat exist in the model.      *)
(*                                                                         *)
(* Entropies and gains are held exactly, as integer combinations of the    *)
(* logarithms of primes, next to the rounding (in units in the last place) *)
(* that the float64 sum takes in the order the runtime ranges over the map *)
(* of counts.  The order of `range` over a map is not fixed by Go: every   *)
(* order of a record's attributes and every starting slot of the counts is *)
(* followed.  Values are scalars, so predicateEq never compares values     *)
(* that Go cannot compare.                                                 *)
(***************************************************************************)
EXTENDS Integers, Sequences, FiniteSets, TLC

VARIABLES
    set,      \* Train's argument: the TrainingSet (a sequence of items)
    cfg,      \* Train's argument: the Config
    stack,    \* activation records of makeTrainingTree, innermost first
    model,    \* the *Model returned by Train (NoModel until it returns)
    call      \* the last library call made on its own: [op, args, out]

vars == <<set, cfg, stack, model, call>>

-----------------------------------------------------------------------------
(* Bounds                                                                  *)

\* The depth of recursion of makeTrainingTree the model follows.
MaxRecursion == 4

\* The longest training set drawn from the records of Items.
MaxRows == 2

\* The positive MaxDepth and MinSamples of the configurations drawn.
DepthLimit == 1
SamplesLimit == 2

\* The longest batch handed to PredictBatch and PredictProbaBatch.
MaxBatch == 2

-----------------------------------------------------------------------------
(* Values                                                                  *)

\* trimFloat's precision: const p = 1e6
p == 1000000

\* One float64 unit of the model is 1/FloatUnit: one decimal below p.
FloatUnit == 10 * p

Nil == [t |-> "nil", s |-> "", n |-> 0]
Str(x) == [t |-> "string", s |-> x, n |-> 0]
F64(x) == [t |-> "float64", s |-> "", n |-> x]
IntV(x) == [t |-> "int", s |-> "", n |-> x]
Bool(x) == [t |-> "bool", s |-> "", n |-> IF x THEN 1 ELSE 0]

\* A whole float64, as the literals 85.0, 1.0 of the tests.
Num(x) == F64(x * FloatUnit)

\* item[attr] of a Go map: the zero value (nil) when the key is missing.
Has(item, attr) == attr \in DOMAIN item
Get(item, attr) == IF Has(item, attr) THEN item[attr] ELSE Nil

\* A nil TrainingItem (a nil map), as passed to Predict.
NilItem == [nilTrainingItem |-> Nil]

-----------------------------------------------------------------------------
(* train.go: internal helpers                                              *)

predicateEq(a, b) == a = b

\* b.(float64) panics when a is a number and b holds anything but a float64.
gtePanics(a, b) == a.t \in {"float64", "int"} /\ b.t # "float64"

predicateGte(a, b) ==
    CASE a.t = "float64" -> a.n >= b.n
      [] a.t = "int" -> a.n * FloatUnit >= b.n
      [] a.t = "nil" -> FALSE
      [] OTHER -> FALSE

\* A Predicate value is held by its name.
Panics(predName, a, b) == predName = ">=" /\ gtePanics(a, b)
Apply(predName, a, b) ==
    IF predName = ">=" THEN predicateGte(a, b) ELSE predicateEq(a, b)

\* stringInSlice finding nothing.
stringInSliceNever(a, list) == FALSE

RECURSIVE stringInSlice(_, _)
stringInSlice(a, list) ==
    IF list = <<>> THEN FALSE
    ELSE IF Head(list) = a THEN TRUE ELSE stringInSlice(a, Tail(list))

isNumeric(v) == v.t \in {"int", "float64"}

toFloat(v) ==
    CASE v.t = "int" -> v.n * FloatUnit
      [] v.t = "float64" -> v.n
      [] OTHER -> 0

toComparable(v) == IF isNumeric(v) THEN F64(toFloat(v)) ELSE v

Digit(d) ==
    CASE d = 0 -> "0" [] d = 1 -> "1" [] d = 2 -> "2" [] d = 3 -> "3"
      [] d = 4 -> "4" [] d = 5 -> "5" [] d = 6 -> "6" [] d = 7 -> "7"
      [] d = 8 -> "8" [] OTHER -> "9"

RECURSIVE digits(_)
digits(i) == IF i = 0 THEN "" ELSE digits(i \div 10) \o Digit(i % 10)

itoa(i) ==
    IF i = 0 THEN "0"
    ELSE IF i < 0 THEN "-" \o digits(-i) ELSE digits(i)

fmtInt(i) == itoa(i)

Abs(i) == IF i < 0 THEN -i ELSE i

\* The k decimals of frac, a number of 10^-k, with leading zeros.
RECURSIVE decimals(_, _)
decimals(frac, k) ==
    IF k = 0 THEN "" ELSE decimals(frac \div 10, k - 1) \o Digit(frac % 10)

\* trimFloat's six decimals with the trailing zeros trimmed.
RECURSIVE trimZeros(_, _)
trimZeros(frac, k) ==
    IF k = 0 THEN ""
    ELSE IF frac % 10 = 0 THEN trimZeros(frac \div 10, k - 1)
    ELSE decimals(frac, k)

\* f in float units.  math.Round rounds half away from zero.
trimFloat(f) ==
    LET micro == (Abs(f) + 5) \div 10          \* |v| * p, v rounded to 6 decimals
        neg == f < 0
        ip == micro \div p
        fp == micro % p
    IN  IF fp = 0 THEN fmtInt(IF neg THEN -ip ELSE ip)
        ELSE (IF neg THEN "-" ELSE "") \o fmtInt(ip) \o "." \o trimZeros(fp, 6)

formatFloatKey(f) ==
    IF f % FloatUnit = 0 THEN fmtInt(IF f < 0 THEN -(Abs(f) \div FloatUnit) ELSE f \div FloatUnit)
    ELSE trimFloat(f)

\* The key counterUniqueValues files a value under.
CountKey(v) ==
    CASE v.t = "string" -> v.s
      [] v.t = "float64" -> formatFloatKey(v.n)
      [] v.t = "int" -> formatFloatKey(v.n * FloatUnit)
      [] OTHER -> "<nil>"

\* The keys of the map in the order they were first inserted.
RECURSIVE KeyOrder(_, _)
KeyOrder(s, attr) ==
    IF s = <<>> THEN <<>>
    ELSE LET front == KeyOrder(SubSeq(s, 1, Len(s) - 1), attr)
             k == CountKey(Get(s[Len(s)], attr))
         IN  IF \E i \in 1..Len(front) : front[i] = k THEN front ELSE Append(front, k)

counterUniqueValues(s, attr) ==
    LET keys == {CountKey(Get(s[i], attr)) : i \in 1..Len(s)}
    IN  [k \in keys |-> Cardinality({i \in 1..Len(s) : CountKey(Get(s[i], attr)) = k})]

\* math.Log of a prime, in units of 1/FloatUnit.
LnPrime(q) ==
    CASE q = 2 -> 6931472 [] q = 3 -> 10986123 [] q = 5 -> 16094379
      [] q = 7 -> 19459101 [] q = 11 -> 23978953 [] OTHER -> 25649494

\* math.Log(k) for 1 <= k <= 16, as the sum of the logarithms of k's prime
\* factors: two sums of logarithms are equal exactly when their real values are.
RECURSIVE Ln(_)
Ln(k) ==
    IF k <= 1 THEN 0
    ELSE LET q == CHOOSE d \in 2..k : k % d = 0 /\ \A r \in 2..(d - 1) : k % r # 0
         IN  LnPrime(q) + Ln(k \div q)

RECURSIVE SumCLnC(_, _)
SumCLnC(counter, keys) ==
    IF keys = {} THEN 0
    ELSE LET k == CHOOSE x \in keys : TRUE
         IN  counter[k] * Ln(counter[k]) + SumCLnC(counter, keys \ {k})

\* entropy(set, attr) times len(set), in units of 1/FloatUnit:
\* sum of -p*ln(p) with p = cnt/total is ln(total) - sum(cnt*ln(cnt))/total.
entropy(s, attr) ==
    LET counter == counterUniqueValues(s, attr)
        total == Len(s)
    IN  IF total = 0 THEN 0
        ELSE total * Ln(total) - SumCLnC(counter, DOMAIN counter)

\* The 0.00001 of makeTrainingTree's purity test, in units of 1/FloatUnit.
PureTolerance == FloatUnit \div 100000

\* The orders of the class counts, for sets of up to 7 records, in which the
\* float64 sum e += -p*math.Log(p) ends one unit in the last place above the sum
\* taken in the other orders of the same counts (IEEE 754 round to nearest).
RoundsUp ==
    { <<1, 2, 3>>, <<1, 3, 2>>, <<2, 1, 3>>, <<3, 1, 2>>,
      <<1, 1, 1, 3>>,
      <<1, 1, 2, 2>>, <<1, 2, 1, 2>>, <<1, 2, 2, 1>>, <<2, 1, 1, 2>>, <<2, 1, 2, 1>>,
      <<1, 5, 1>>, <<5, 1, 1>>,
      <<1, 1, 1, 4>> }

Rotate(q, k) == [i \in 1..Len(q) |-> q[((i - 1 + k) % Len(q)) + 1]]

\* `for _, cnt := range counter` starts at a slot the runtime draws at random
\* and wraps around: the counts in the order they are summed.
CountsFrom(s, attr, rot) ==
    LET keys == KeyOrder(s, attr)
        counter == counterUniqueValues(s, attr)
    IN  Rotate([i \in 1..Len(keys) |-> counter[keys[i]]], rot)

\* The rounding of entropy(set, attr), in units in the last place, when the map
\* is ranged over from slot rot.
entropyUlp(s, attr, rot) ==
    IF s = <<>> THEN 0
    ELSE IF CountsFrom(s, attr, rot) \in RoundsUp THEN 1 ELSE 0

\* The roundings the iteration order can give entropy(set, attr).
entropyUlps(s, attr) ==
    {entropyUlp(s, attr, rot) : rot \in 0..(Len(KeyOrder(s, attr)) - 1)} \cup
    (IF s = <<>> THEN {0} ELSE {})

-----------------------------------------------------------------------------
(* train.go: split                                                         *)

NoPredicate == ""

\* split panics when the predicate does.
splitPanics(s, attr, predName, pivot) ==
    \E i \in 1..Len(s) : Panics(predName, Get(s[i], attr), pivot)

\* The zero splitResult with Match and NoMatch filled in.  Gain is held as the
\* exact value times len(set) (Gain) and its rounding (GainUlp).
split(s, attr, predName, pivot) ==
    LET match(item) == Apply(predName, Get(item, attr), pivot)
        nomatch(item) == ~Apply(predName, Get(item, attr), pivot)
    IN  [Match |-> SelectSeq(s, match), NoMatch |-> SelectSeq(s, nomatch),
         Gain |-> 0, GainUlp |-> 0, Attribute |-> "", PredicateName |-> NoPredicate,
         Pivot |-> Nil]

-----------------------------------------------------------------------------
(* types.go: TreeItem, Model; train.go: leaves                             *)

\* A nil *TreeItem, a nil map[string]int, an empty map, a nil *Model.
NilNode == [nilTreeItem |-> TRUE]
NilMap == [nilMap |-> 0]
EmptyMap == [k \in {} |-> 0]
NilModel == [nilModel |-> TRUE]

\* len(m) of a map.
MapLen(m) == IF m = NilMap THEN 0 ELSE Cardinality(DOMAIN m)
MapKeys(m) == IF m = NilMap THEN {} ELSE DOMAIN m

\* The zero TreeItem: what &TreeItem{} holds in the fields it does not name.
ZeroTreeItem ==
    [Match |-> NilNode, NoMatch |-> NilNode, Category |-> "", ClassCounts |-> NilMap,
     MatchedCount |-> 0, NoMatchedCount |-> 0, Attribute |-> "",
     PredicateName |-> NoPredicate, Pivot |-> Nil]

\* The strings mostFrequentValue can return: the loop keeps the first key, in
\* the order the runtime ranges over the map, whose count is the largest, and
\* "" when no count is positive.
mostFrequentValue(counts) ==
    LET keys == {k \in MapKeys(counts) : counts[k] > 0}
    IN  IF keys = {} THEN {""}
        ELSE {k \in keys : \A o \in keys : counts[o] <= counts[k]}

\* The leaves leafFromSet can return.
leafFromSet(s, labelAttr) ==
    LET counts == counterUniqueValues(s, labelAttr)
    IN  {[ZeroTreeItem EXCEPT !.Category = mostVal, !.ClassCounts = counts] :
            mostVal \in mostFrequentValue(counts)}

-----------------------------------------------------------------------------
(* train.go: Train and makeTrainingTree, one activation record per call    *)

NoModel == [noModel |-> TRUE]
NoCall == [op |-> "none"]

\* var best splitResult
ZeroSplit == split(<<>>, "", NoPredicate, Nil)

\* An activation of makeTrainingTree(set, cfg, depth) at its first statement.
Frame(s, depth) ==
    [set |-> s, depth |-> depth, pc |-> "enter", i |-> 0, todo |-> {},
     initUlp |-> 0, best |-> ZeroSplit, match |-> NilNode, ret |-> NilNode]

\* curr.Gain > best.Gain on float64: the exact values decide, and the roundings
\* when the exact values are equal.
GainGt(a, b) == a.Gain > b.Gain \/ (a.Gain = b.Gain /\ a.GainUlp > b.GainUlp)

\* The roundings of matchE and noMatchE that newE keeps: an empty side adds
\* 0*0, the other side is then the whole set and its entropy is summed again.
newEUlps(curr, labelAttr) ==
    IF curr.NoMatch = <<>> THEN entropyUlps(curr.Match, labelAttr)
    ELSE IF curr.Match = <<>> THEN entropyUlps(curr.NoMatch, labelAttr)
    ELSE {0}

top == Head(stack)
Running == stack # <<>>
Replace(f) == <<f>> \o Tail(stack)

\* func Train(set TrainingSet, cfg Config) *Model: the call.
Train ==
    /\ stack = <<>>
    /\ model = NoModel
    /\ stack' = <<Frame(set, 0)>>
    /\ call' = [op |-> "Train"]
    /\ UNCHANGED <<set, cfg, model>>

\* if len(set) == 0 { return &TreeItem{Category: ""} }
EnterEmpty ==
    /\ Running /\ top.pc = "enter"
    /\ Len(top.set) = 0
    /\ stack' = Replace([top EXCEPT !.pc = "ret", !.ret = ZeroTreeItem])
    /\ UNCHANGED <<set, cfg, model, call>>

\* MustStop without the `cfg.MaxDepth > 0` that makes 0 mean no limit.
MustStopAtZero(f) ==
    \/ entropy(f.set, cfg.CategoryAttr) <= Len(f.set) * PureTolerance
    \/ f.depth >= cfg.MaxDepth
    \/ (cfg.MinSamples > 0 /\ Len(f.set) < cfg.MinSamples)

\* MustStop with `depth > cfg.MaxDepth` for `depth >= cfg.MaxDepth`.
MustStopLate(f) ==
    \/ entropy(f.set, cfg.CategoryAttr) <= Len(f.set) * PureTolerance
    \/ (cfg.MaxDepth > 0 /\ f.depth > cfg.MaxDepth)
    \/ (cfg.MinSamples > 0 /\ Len(f.set) < cfg.MinSamples)

MustStop(f) ==
    \/ entropy(f.set, cfg.CategoryAttr) <= Len(f.set) * PureTolerance
    \/ (cfg.MaxDepth > 0 /\ f.depth >= cfg.MaxDepth)
    \/ (cfg.MinSamples > 0 /\ Len(f.set) < cfg.MinSamples)

\* pure, or a threshold reached: return leafFromSet(set, cfg.CategoryAttr)
EnterLeaf ==
    /\ Running /\ top.pc = "enter"
    /\ Len(top.set) # 0
    /\ MustStop(top)
    /\ \E leaf \in leafFromSet(top.set, cfg.CategoryAttr) :
          stack' = Replace([top EXCEPT !.pc = "ret", !.ret = leaf])
    /\ UNCHANGED <<set, cfg, model, call>>

\* initEntropy := entropy(set, cfg.CategoryAttr); var best splitResult;
\* and the first record of `for _, item := range set`
EnterLoops ==
    /\ Running /\ top.pc = "enter"
    /\ Len(top.set) # 0
    /\ ~MustStop(top)
    /\ \E u \in entropyUlps(top.set, cfg.CategoryAttr) :
          stack' = Replace([top EXCEPT !.pc = "loop", !.i = 1,
                                       !.todo = DOMAIN top.set[1],
                                       !.initUlp = u, !.best = ZeroSplit])
    /\ UNCHANGED <<set, cfg, model, call>>

\* One turn of `for attr, pivot := range item`, on an attribute the runtime
\* picks among those the loop has not yet visited.
LoopAttr ==
    /\ Running /\ top.pc = "loop"
    /\ \E attr \in top.todo :
          LET item == top.set[top.i]
              skip == attr = cfg.CategoryAttr \/ stringInSlice(attr, cfg.IgnoredAttributes)
              predName == IF isNumeric(item[attr]) THEN ">=" ELSE "=="
              pivot == IF isNumeric(item[attr]) THEN F64(toFloat(item[attr])) ELSE item[attr]
              sp == split(top.set, attr, predName, pivot)
              gain == entropy(top.set, cfg.CategoryAttr)
                        - entropy(sp.Match, cfg.CategoryAttr)
                        - entropy(sp.NoMatch, cfg.CategoryAttr)
          IN  IF skip
              THEN stack' = Replace([top EXCEPT !.todo = @ \ {attr}])
              ELSE \E u \in newEUlps(sp, cfg.CategoryAttr) :
                     LET curr == [sp EXCEPT !.Gain = gain, !.GainUlp = top.initUlp - u,
                                            !.Attribute = attr, !.Pivot = pivot,
                                            !.PredicateName = predName]
                     IN  stack' = Replace([top EXCEPT
                                     !.todo = @ \ {attr},
                                     !.best = IF GainGt(curr, @) THEN curr ELSE @])
    /\ UNCHANGED <<set, cfg, model, call>>

\* The next record of `for _, item := range set`.
NextItem ==
    /\ Running /\ top.pc = "loop"
    /\ top.todo = {}
    /\ top.i < Len(top.set)
    /\ stack' = Replace([top EXCEPT !.i = @ + 1, !.todo = DOMAIN top.set[top.i + 1]])
    /\ UNCHANGED <<set, cfg, model, call>>

LoopsDone(f) == f.pc = "loop" /\ f.todo = {} /\ f.i = Len(f.set)

\* if best.Gain <= 0 { return leafFromSet(set, cfg.CategoryAttr) }
FinishLeaf ==
    /\ Running /\ LoopsDone(top)
    /\ ~GainGt(top.best, ZeroSplit)
    /\ \E leaf \in leafFromSet(top.set, cfg.CategoryAttr) :
          stack' = Replace([top EXCEPT !.pc = "ret", !.ret = leaf])
    /\ UNCHANGED <<set, cfg, model, call>>

\* Match: makeTrainingTree(best.Match, cfg, depth+1): the recursive call.
FinishSplit ==
    /\ Running /\ LoopsDone(top)
    /\ GainGt(top.best, ZeroSplit)
    /\ top.depth < MaxRecursion
    /\ stack' = <<Frame(top.best.Match, top.depth + 1)>>
                  \o Replace([top EXCEPT !.pc = "match"])
    /\ UNCHANGED <<set, cfg, model, call>>

\* A call of makeTrainingTree returns: to the Match field of its caller, which
\* then calls NoMatch: makeTrainingTree(best.NoMatch, cfg, depth+1); to the
\* NoMatch field, which completes the caller's TreeItem; or to Train, which
\* returns &Model{Root: root, Config: cfg}.
Return ==
    /\ Running /\ top.pc = "ret"
    /\ IF Len(stack) = 1
       THEN /\ model' = [Root |-> top.ret,
                          Config |-> [cfg EXCEPT !.Criterion = IF @ = "" THEN "entropy" ELSE @]]
            /\ stack' = <<>>
       ELSE LET caller == stack[2]
                rest == SubSeq(stack, 3, Len(stack))
            IN  /\ model' = model
                /\ IF caller.pc = "match"
                   THEN stack' = <<Frame(caller.best.NoMatch, caller.depth + 1),
                                   [caller EXCEPT !.pc = "nomatch", !.match = top.ret]>>
                                 \o rest
                   ELSE stack' = <<[caller EXCEPT !.pc = "ret", !.ret =
                                      [ZeroTreeItem EXCEPT
                                         !.Match = caller.match,
                                         !.NoMatch = top.ret,
                                         !.MatchedCount = Len(caller.best.Match),
                                         !.NoMatchedCount = Len(caller.best.NoMatch),
                                         !.Attribute = caller.best.Attribute,
                                         !.PredicateName = caller.best.PredicateName,
                                         !.Pivot = caller.best.Pivot,
                                         !.ClassCounts =
                                            counterUniqueValues(caller.set, cfg.CategoryAttr)]]>>
                                 \o rest
    /\ UNCHANGED <<set, cfg, call>>

-----------------------------------------------------------------------------
(* predict.go                                                              *)

\* The error values: errors.New(text), nil, and a run-time panic.
NoError == ""
ErrNilModel == "model is nil"
ErrNilRoot == "model has nil root node"
ErrNilItem == "item cannot be nil"
Panic == "panic"

\* float64(v) / float64(total), held as the pair of its operands.
Ratio(v, total) == <<v, total>>

RECURSIVE SumCounts(_, _)
SumCounts(counts, keys) ==
    IF keys = {} THEN 0
    ELSE LET k == CHOOSE x \in keys : TRUE
         IN  counts[k] + SumCounts(counts, keys \ {k})

\* calculateProba without `if total == 0 { return out }`.
calculateProbaUnguarded(counts) ==
    LET total == SumCounts(counts, MapKeys(counts))
    IN  [k \in MapKeys(counts) |-> Ratio(counts[k], total)]

calculateProba(counts) ==
    LET total == SumCounts(counts, MapKeys(counts))
    IN  IF total = 0 THEN EmptyMap
        ELSE [k \in MapKeys(counts) |-> Ratio(counts[k], total)]

IsLeaf(node) == node.Match = NilNode /\ node.NoMatch = NilNode

\* MajoritySide with > for >=: a tie goes to NoMatch.
MajoritySideStrict(node) ==
    IF node.MatchedCount > node.NoMatchedCount THEN node.Match ELSE node.NoMatch

\* The side the training records mostly went to.
MajoritySide(node) ==
    IF node.MatchedCount >= node.NoMatchedCount THEN node.Match ELSE node.NoMatch

\* Whether the step from node panics: predicateGte on a pivot not a float64.
StepPanics(node, item) ==
    /\ Has(item, node.Attribute)
    /\ node.PredicateName = ">="
    /\ item[node.Attribute] # Nil
    /\ gtePanics(toComparable(item[node.Attribute]), node.Pivot)

\* nextNode with the two branches of `if goMatch` exchanged.
nextNodeSwapped(node, item) ==
    IF ~Has(item, node.Attribute) THEN MajoritySide(node)
    ELSE IF node.PredicateName = ">="
    THEN IF item[node.Attribute] = Nil THEN MajoritySide(node)
         ELSE IF predicateGte(toComparable(item[node.Attribute]), node.Pivot)
              THEN node.NoMatch ELSE node.Match
    ELSE IF predicateEq(item[node.Attribute], node.Pivot)
         THEN node.NoMatch ELSE node.Match

\* nextNode taking a null value for no value under "==" as under ">=".
nextNodeNullAsMissing(node, item) ==
    IF ~Has(item, node.Attribute) \/ item[node.Attribute] = Nil THEN MajoritySide(node)
    ELSE IF node.PredicateName = ">="
    THEN IF predicateGte(toComparable(item[node.Attribute]), node.Pivot)
         THEN node.Match ELSE node.NoMatch
    ELSE IF predicateEq(item[node.Attribute], node.Pivot)
         THEN node.Match ELSE node.NoMatch

\* nextNode of the loop of Predict and PredictProba.
nextNode(node, item) ==
    IF ~Has(item, node.Attribute) THEN MajoritySide(node)
    ELSE IF node.PredicateName = ">="
    THEN IF item[node.Attribute] = Nil THEN MajoritySide(node)
         ELSE IF predicateGte(toComparable(item[node.Attribute]), node.Pivot)
              THEN node.Match ELSE node.NoMatch
    ELSE IF predicateEq(item[node.Attribute], node.Pivot)
         THEN node.Match ELSE node.NoMatch

\* The node the loop stops at, with the way it stops.
RECURSIVE Descend(_, _)
Descend(node, item) ==
    IF IsLeaf(node) THEN [node |-> node, at |-> "leaf"]
    ELSE IF StepPanics(node, item) THEN [node |-> node, at |-> Panic]
    ELSE IF nextNode(node, item) = NilNode THEN [node |-> node, at |-> "dead end"]
    ELSE Descend(nextNode(node, item), item)

\* Predict with the record checked before the model.
PredictRecordFirst(m, item) ==
    IF item = NilItem THEN {[out |-> "", err |-> ErrNilItem]}
    ELSE IF m = NilModel THEN {[out |-> "", err |-> ErrNilModel]}
    ELSE IF m.Root = NilNode THEN {[out |-> "", err |-> ErrNilRoot]}
    ELSE LET d == Descend(m.Root, item)
         IN  CASE d.at = "leaf" -> {[out |-> d.node.Category, err |-> NoError]}
               [] d.at = Panic -> {[out |-> "", err |-> Panic]}
               [] OTHER -> {[out |-> k, err |-> NoError] :
                               k \in mostFrequentValue(d.node.ClassCounts)}

\* Predict without `if nextNode == nil`: the loop ends at the nil child and
\* the error after the loop is returned.
PredictPastDeadEnd(m, item) ==
    IF m = NilModel THEN {[out |-> "", err |-> ErrNilModel]}
    ELSE IF m.Root = NilNode THEN {[out |-> "", err |-> ErrNilRoot]}
    ELSE IF item = NilItem THEN {[out |-> "", err |-> ErrNilItem]}
    ELSE LET d == Descend(m.Root, item)
         IN  CASE d.at = "leaf" -> {[out |-> d.node.Category, err |-> NoError]}
               [] d.at = Panic -> {[out |-> "", err |-> Panic]}
               [] OTHER -> {[out |-> "",
                             err |-> "reached end of tree without finding leaf node"]}

\* The results (value, error) Predict can return.
Predict(m, item) ==
    IF m = NilModel THEN {[out |-> "", err |-> ErrNilModel]}
    ELSE IF m.Root = NilNode THEN {[out |-> "", err |-> ErrNilRoot]}
    ELSE IF item = NilItem THEN {[out |-> "", err |-> ErrNilItem]}
    ELSE LET d == Descend(m.Root, item)
         IN  CASE d.at = "leaf" -> {[out |-> d.node.Category, err |-> NoError]}
               [] d.at = Panic -> {[out |-> "", err |-> Panic]}
               [] OTHER -> {[out |-> k, err |-> NoError] :
                               k \in mostFrequentValue(d.node.ClassCounts)}

\* The result PredictProba returns.
PredictProba(m, item) ==
    IF m = NilModel THEN {[out |-> NilMap, err |-> ErrNilModel]}
    ELSE IF m.Root = NilNode THEN {[out |-> NilMap, err |-> ErrNilRoot]}
    ELSE IF item = NilItem THEN {[out |-> NilMap, err |-> ErrNilItem]}
    ELSE LET d == Descend(m.Root, item)
         IN  IF d.at = Panic THEN {[out |-> NilMap, err |-> Panic]}
             ELSE {[out |-> calculateProba(d.node.ClassCounts), err |-> NoError]}

\* The single prediction the loop of a batch makes: m.Predict(it) in
\* PredictBatch, m.PredictProba(it) in PredictProbaBatch.
One(proba, m, it) == IF proba THEN PredictProba(m, it) ELSE Predict(m, it)

\* The loop of PredictBatch and PredictProbaBatch: out[:i] and the error at
\* the first failure, out and nil when no prediction fails.
RECURSIVE Batch(_, _, _)
Batch(proba, m, items) ==
    IF items = <<>> THEN {[out |-> <<>>, err |-> NoError]}
    ELSE LET n == Len(items)
             before == Batch(proba, m, SubSeq(items, 1, n - 1))
         IN  {b \in before : b.err # NoError}
             \cup {[out |-> IF r.err = NoError THEN Append(b.out, r.out) ELSE b.out,
                    err |-> r.err] :
                      b \in {x \in before : x.err = NoError}, r \in One(proba, m, items[n])}

\* PredictBatch returning out whole, not out[:i], on an error.
PredictBatchWhole(m, items) ==
    {[out |-> IF r.err = NoError THEN r.out
              ELSE r.out \o [i \in 1..(Len(items) - Len(r.out)) |-> ""],
      err |-> r.err] : r \in Batch(FALSE, m, items)}

PredictBatch(m, items) == Batch(FALSE, m, items)
PredictProbaBatch(m, items) == Batch(TRUE, m, items)

-----------------------------------------------------------------------------
(* serialize.go: Validate                                                  *)

\* validateNode without the calls on node.Match and node.NoMatch.
validateNodeShallow(node) ==
    IF node = NilNode THEN NoError
    ELSE IF IsLeaf(node)
    THEN IF node.ClassCounts = NilMap THEN "leaf node missing classCounts" ELSE NoError
    ELSE IF node.Match = NilNode \/ node.NoMatch = NilNode
    THEN "internal node missing one or both children"
    ELSE IF node.Attribute = "" THEN "internal node missing attribute"
    ELSE IF node.PredicateName = "" THEN "internal node missing predicateName"
    ELSE IF node.PredicateName # "==" /\ node.PredicateName # ">="
    THEN "internal node has invalid predicateName (must be == or >=)"
    ELSE IF node.ClassCounts = NilMap THEN "internal node missing classCounts"
    ELSE NoError

RECURSIVE validateNode(_)
validateNode(node) ==
    IF node = NilNode THEN NoError
    ELSE IF IsLeaf(node)
    THEN IF node.ClassCounts = NilMap THEN "leaf node missing classCounts" ELSE NoError
    ELSE IF node.Match = NilNode \/ node.NoMatch = NilNode
    THEN "internal node missing one or both children"
    ELSE IF node.Attribute = "" THEN "internal node missing attribute"
    ELSE IF node.PredicateName = "" THEN "internal node missing predicateName"
    ELSE IF node.PredicateName # "==" /\ node.PredicateName # ">="
    THEN "internal node has invalid predicateName (must be == or >=)"
    ELSE IF node.ClassCounts = NilMap THEN "internal node missing classCounts"
    ELSE IF validateNode(node.Match) # NoError THEN validateNode(node.Match)
    ELSE validateNode(node.NoMatch)

\* Validate with the tree validated before the Config.
ValidateTreeFirst(m) ==
    IF m = NilModel THEN ErrNilModel
    ELSE IF m.Root = NilNode THEN ErrNilRoot
    ELSE IF validateNode(m.Root) # NoError THEN validateNode(m.Root)
    ELSE IF m.Config.CategoryAttr = "" THEN "model config missing categoryAttr"
    ELSE IF m.Config.MaxDepth < 0 THEN "model config has negative maxDepth"
    ELSE IF m.Config.MinSamples < 0 THEN "model config has negative minSamples"
    ELSE NoError

Validate(m) ==
    IF m = NilModel THEN ErrNilModel
    ELSE IF m.Root = NilNode THEN ErrNilRoot
    ELSE IF m.Config.CategoryAttr = "" THEN "model config missing categoryAttr"
    ELSE IF m.Config.MaxDepth < 0 THEN "model config has negative maxDepth"
    ELSE IF m.Config.MinSamples < 0 THEN "model config has negative minSamples"
    ELSE validateNode(m.Root)

-----------------------------------------------------------------------------
(* Stats                                                                   *)

\* ModelStats{}, with the set of classes collectStats fills beside it.
ZeroStats ==
    [TreeDepth |-> 0, TotalNodes |-> 0, LeafNodes |-> 0, InternalNodes |-> 0,
     classSet |-> {}]

\* collectStats with the root at depth 1.
RECURSIVE collectStatsRootAtOne(_, _, _)
collectStatsRootAtOne(node, depth, stats) ==
    IF node = NilNode THEN stats
    ELSE LET counted == [stats EXCEPT !.TotalNodes = @ + 1,
                                      !.TreeDepth = IF depth + 1 > @ THEN depth + 1 ELSE @]
         IN  IF node.Match = NilNode /\ node.NoMatch = NilNode
             THEN [counted EXCEPT !.LeafNodes = @ + 1,
                                  !.classSet = IF node.Category # ""
                                               THEN @ \cup {node.Category} ELSE @]
             ELSE collectStatsRootAtOne(node.NoMatch, depth + 1,
                     collectStatsRootAtOne(node.Match, depth + 1,
                        [counted EXCEPT !.InternalNodes = @ + 1]))

\* collectStats(node, depth, stats, classSet): *stats and classSet after the
\* call.
RECURSIVE collectStats(_, _, _)
collectStats(node, depth, stats) ==
    IF node = NilNode THEN stats
    ELSE LET counted == [stats EXCEPT !.TotalNodes = @ + 1,
                                      !.TreeDepth = IF depth > @ THEN depth ELSE @]
         IN  IF node.Match = NilNode /\ node.NoMatch = NilNode
             THEN [counted EXCEPT !.LeafNodes = @ + 1,
                                  !.classSet = IF node.Category # ""
                                               THEN @ \cup {node.Category} ELSE @]
             ELSE collectStats(node.NoMatch, depth + 1,
                     collectStats(node.Match, depth + 1,
                        [counted EXCEPT !.InternalNodes = @ + 1]))

\* The ModelStats Stats can return: Classes is appended to in the order the
\* runtime ranges over classSet, and stays a nil slice when classSet is empty.
Stats(m) ==
    LET stats == IF m = NilModel \/ m.Root = NilNode THEN ZeroStats
                 ELSE collectStats(m.Root, 0, ZeroStats)
        n == Cardinality(stats.classSet)
    IN  {[TreeDepth |-> stats.TreeDepth, TotalNodes |-> stats.TotalNodes,
          LeafNodes |-> stats.LeafNodes, InternalNodes |-> stats.InternalNodes,
          Classes |-> order] :
            order \in {o \in [1..n -> stats.classSet] :
                          \A i, k \in 1..n : i # k => o[i] # o[k]}}

-----------------------------------------------------------------------------
(* serialize.go: SaveJSON, LoadJSON, DecodeJSON over encoding/json          *)

\* JSON values.  A number is held in units of 1/FloatUnit; an object is the
\* function from the names of its members to their values.
JNull == [j |-> "null"]
JNum(n) == [j |-> "number", n |-> n]
JStr(s) == [j |-> "string", s |-> s]
JBool(b) == [j |-> "bool", b |-> b]
JArr(a) == [j |-> "array", a |-> a]
JObj(f) == [j |-> "object", f |-> f]

HasMember(o, name) == name \in DOMAIN o.f

\* json.Marshal of an interface{}: an int and a float64 give the same number.
encodeValue(v) ==
    CASE v.t = "string" -> JStr(v.s)
      [] v.t = "float64" -> JNum(v.n)
      [] v.t = "int" -> JNum(v.n * FloatUnit)
      [] v.t = "bool" -> JBool(v.n = 1)
      [] OTHER -> JNull

\* json.Unmarshal into an interface{}: every number is a float64.
decodeValue(jv) ==
    CASE jv.j = "string" -> Str(jv.s)
      [] jv.j = "number" -> F64(jv.n)
      [] jv.j = "bool" -> Bool(jv.b)
      [] OTHER -> Nil

encodeCounts(counts) == JObj([k \in MapKeys(counts) |-> JNum(counts[k] * FloatUnit)])
decodeCounts(jv) ==
    IF jv.j = "null" THEN NilMap ELSE [k \in DOMAIN jv.f |-> jv.f[k].n \div FloatUnit]

\* The members of a TreeItem that `omitempty` keeps.
TreeItemMembers(node) ==
    {k \in {"match", "noMatch", "category", "classCounts", "matchedCount",
            "noMatchedCount", "attribute", "predicateName", "pivot"} :
        CASE k = "match" -> node.Match # NilNode
          [] k = "noMatch" -> node.NoMatch # NilNode
          [] k = "category" -> node.Category # ""
          [] k = "classCounts" -> MapLen(node.ClassCounts) # 0
          [] k = "matchedCount" -> node.MatchedCount # 0
          [] k = "noMatchedCount" -> node.NoMatchedCount # 0
          [] k = "attribute" -> node.Attribute # ""
          [] k = "predicateName" -> node.PredicateName # ""
          [] OTHER -> node.Pivot # Nil}

RECURSIVE encodeTreeItem(_)
encodeTreeItem(node) ==
    JObj([k \in TreeItemMembers(node) |->
        CASE k = "match" -> encodeTreeItem(node.Match)
          [] k = "noMatch" -> encodeTreeItem(node.NoMatch)
          [] k = "category" -> JStr(node.Category)
          [] k = "classCounts" -> encodeCounts(node.ClassCounts)
          [] k = "matchedCount" -> JNum(node.MatchedCount * FloatUnit)
          [] k = "noMatchedCount" -> JNum(node.NoMatchedCount * FloatUnit)
          [] k = "attribute" -> JStr(node.Attribute)
          [] k = "predicateName" -> JStr(node.PredicateName)
          [] OTHER -> encodeValue(node.Pivot)])

\* A member missing from the object leaves the field at its zero value.
RECURSIVE decodeTreeItem(_)
decodeTreeItem(jv) ==
    IF jv.j = "null" THEN NilNode
    ELSE [Match |-> IF HasMember(jv, "match") THEN decodeTreeItem(jv.f["match"]) ELSE NilNode,
          NoMatch |-> IF HasMember(jv, "noMatch") THEN decodeTreeItem(jv.f["noMatch"]) ELSE NilNode,
          Category |-> IF HasMember(jv, "category") THEN jv.f["category"].s ELSE "",
          ClassCounts |-> IF HasMember(jv, "classCounts")
                          THEN decodeCounts(jv.f["classCounts"]) ELSE NilMap,
          MatchedCount |-> IF HasMember(jv, "matchedCount")
                           THEN jv.f["matchedCount"].n \div FloatUnit ELSE 0,
          NoMatchedCount |-> IF HasMember(jv, "noMatchedCount")
                             THEN jv.f["noMatchedCount"].n \div FloatUnit ELSE 0,
          Attribute |-> IF HasMember(jv, "attribute") THEN jv.f["attribute"].s ELSE "",
          PredicateName |-> IF HasMember(jv, "predicateName")
                            THEN jv.f["predicateName"].s ELSE NoPredicate,
          Pivot |-> IF HasMember(jv, "pivot") THEN decodeValue(jv.f["pivot"]) ELSE Nil]

ConfigMembers(c) ==
    {k \in {"categoryAttr", "ignoredAttributes", "criterion", "maxDepth", "minSamples"} :
        CASE k = "categoryAttr" -> TRUE
          [] k = "ignoredAttributes" -> Len(c.IgnoredAttributes) # 0
          [] k = "criterion" -> c.Criterion # ""
          [] k = "maxDepth" -> c.MaxDepth # 0
          [] OTHER -> c.MinSamples # 0}

encodeConfig(c) ==
    JObj([k \in ConfigMembers(c) |->
        CASE k = "categoryAttr" -> JStr(c.CategoryAttr)
          [] k = "ignoredAttributes" ->
                JArr([i \in 1..Len(c.IgnoredAttributes) |-> JStr(c.IgnoredAttributes[i])])
          [] k = "criterion" -> JStr(c.Criterion)
          [] k = "maxDepth" -> JNum(c.MaxDepth * FloatUnit)
          [] OTHER -> JNum(c.MinSamples * FloatUnit)])

decodeConfig(jv) ==
    [CategoryAttr |-> IF HasMember(jv, "categoryAttr") THEN jv.f["categoryAttr"].s ELSE "",
     IgnoredAttributes |->
        IF HasMember(jv, "ignoredAttributes")
        THEN [i \in 1..Len(jv.f["ignoredAttributes"].a) |-> jv.f["ignoredAttributes"].a[i].s]
        ELSE <<>>,
     Criterion |-> IF HasMember(jv, "criterion") THEN jv.f["criterion"].s ELSE "",
     MaxDepth |-> IF HasMember(jv, "maxDepth") THEN jv.f["maxDepth"].n \div FloatUnit ELSE 0,
     MinSamples |-> IF HasMember(jv, "minSamples")
                    THEN jv.f["minSamples"].n \div FloatUnit ELSE 0]

\* enc.Encode(m): the document SaveJSON writes to the file.
SaveJSON(m) ==
    IF m = NilModel THEN JNull
    ELSE JObj([k \in {"root", "config"} |->
            IF k = "root"
            THEN IF m.Root = NilNode THEN JNull ELSE encodeTreeItem(m.Root)
            ELSE encodeConfig(m.Config)])

\* dec.Decode(&m) into var m Model.
Decode(doc) ==
    IF doc.j = "null" THEN [Root |-> NilNode, Config |-> decodeConfig(JObj(EmptyMap))]
    ELSE [Root |-> IF HasMember(doc, "root") THEN decodeTreeItem(doc.f["root"]) ELSE NilNode,
          Config |-> IF HasMember(doc, "config") THEN decodeConfig(doc.f["config"])
                     ELSE decodeConfig(JObj(EmptyMap))]

\* DecodeJSON without `if err := m.Validate(); err != nil`.
DecodeJSONUnchecked(doc) == [out |-> Decode(doc), err |-> NoError]

\* (model, error) of DecodeJSON: the decoded model when it passes Validate.
DecodeJSON(doc) ==
    LET m == Decode(doc)
    IN  IF Validate(m) # NoError THEN [out |-> NilModel, err |-> Validate(m)]
        ELSE [out |-> m, err |-> NoError]

LoadJSON(file) == DecodeJSON(file)

-----------------------------------------------------------------------------
(* The training sets and configurations the model starts from              *)

Day(outlook, temperature, humidity, wind, play) ==
    [Outlook |-> Str(outlook), Temperature |-> Num(temperature),
     Humidity |-> Num(humidity), Wind |-> Bool(wind), Play |-> Str(play)]

\* The PlayTennis subset of TestTrainAndPredict_PlayTennis.
Weather ==
    << Day("sunny", 85, 85, FALSE, "no"),
       Day("sunny", 80, 90, TRUE, "no"),
       Day("overcast", 83, 86, FALSE, "yes"),
       Day("rain", 70, 96, FALSE, "yes"),
       Day("rain", 68, 80, FALSE, "yes"),
       Day("rain", 65, 70, TRUE, "no"),
       Day("overcast", 64, 65, TRUE, "yes") >>

Unseen ==
    [Outlook |-> Str("overcast"), Temperature |-> Num(72), Humidity |-> Num(90),
     Wind |-> Bool(TRUE)]

Row(x, label) == [x |-> x, label |-> Str(label)]

\* Six records that agree on x, of three classes in the counts 1, 3, 2.
ThreeClass ==
    << Row(Num(1), "A"), Row(Num(1), "B"), Row(Num(1), "B"),
       Row(Num(1), "B"), Row(Num(1), "C"), Row(Num(1), "C") >>

\* Records of the kinds a TrainingItem can hold: float64, int, string, nil and
\* bool values, an absent attribute, an attribute named "".
Items ==
    { Row(Num(1), "A"), Row(Num(2), "B"), Row(IntV(1), "B"), Row(Str("a"), "A"),
      Row(Nil, "B"), Row(Bool(TRUE), "A"), Row(Bool(FALSE), "B"),
      ("" :> Str("a") @@ "label" :> Str("A")) }

SmallSets == UNION {[1..n -> Items] : n \in 0..MaxRows}

Cfg(categoryAttr, ignored, maxDepth, minSamples) ==
    [CategoryAttr |-> categoryAttr, IgnoredAttributes |-> ignored, Criterion |-> "",
     MaxDepth |-> maxDepth, MinSamples |-> minSamples]

Configs ==
    { Cfg("label", <<>>, 0, 0), Cfg("", <<>>, 0, 0), Cfg("class", <<>>, 0, 0),
      Cfg("label", <<>>, -1, 0), Cfg("label", <<>>, 0, -1),
      Cfg("label", <<>>, DepthLimit, 0), Cfg("label", <<>>, 0, SamplesLimit),
      Cfg("label", <<"x">>, 0, 0), Cfg("x", <<>>, 0, 0) }

Inputs ==
    ({Weather} \X {Cfg("Play", <<>>, 0, 0), Cfg("Play", <<>>, DepthLimit, 0),
                   Cfg("Play", <<"Outlook">>, 0, 0)})
    \cup ({ThreeClass} \X {Cfg("label", <<>>, 0, 0)})
    \cup (SmallSets \X Configs)

Init ==
    /\ \E in \in Inputs : set = in[1] /\ cfg = in[2]
    /\ stack = <<>>
    /\ model = NoModel
    /\ call = NoCall

-----------------------------------------------------------------------------
(* Models built by hand, as the tests of Validate and DecodeJSON build them *)

\* &TreeItem{Category: category, ClassCounts: counts}
Leaf(category, counts) ==
    [ZeroTreeItem EXCEPT !.Category = category, !.ClassCounts = counts]

\* &TreeItem{Attribute: .., PredicateName: .., Pivot: .., ClassCounts: ..,
\*           MatchedCount: .., NoMatchedCount: .., Match: .., NoMatch: ..}
Internal(attr, predName, pivot, matched, noMatched, match, noMatch) ==
    [ZeroTreeItem EXCEPT !.Attribute = attr, !.PredicateName = predName,
                         !.Pivot = pivot, !.MatchedCount = matched,
                         !.NoMatchedCount = noMatched,
                         !.ClassCounts = ("A" :> matched @@ "B" :> noMatched),
                         !.Match = match, !.NoMatch = noMatch]

\* The one thing a test of Validate leaves out of, or gets wrong in, a node.
Flaws ==
    {"none", "Attribute", "PredicateName", "invalid PredicateName", "ClassCounts",
     "Match", "NoMatch"}

Flawed(node, flaw) ==
    CASE flaw = "Attribute" -> [node EXCEPT !.Attribute = ""]
      [] flaw = "PredicateName" -> [node EXCEPT !.PredicateName = ""]
      [] flaw = "invalid PredicateName" -> [node EXCEPT !.PredicateName = "<"]
      [] flaw = "ClassCounts" -> [node EXCEPT !.ClassCounts = NilMap]
      [] flaw = "Match" -> [node EXCEPT !.Match = NilNode]
      [] flaw = "NoMatch" -> [node EXCEPT !.NoMatch = NilNode]
      [] OTHER -> node

LeafA == Leaf("A", ("A" :> 2 @@ "B" :> 1))
LeafB == Leaf("B", ("B" :> 1))

\* Leaves with and without class counts: no map, an empty map, counts that are
\* all zero, the leaf &TreeItem{Category: ""} of an empty training set, and a
\* leaf of records with the label "".
Leaves ==
    { LeafA, LeafB, Leaf("A", NilMap), Leaf("A", EmptyMap), Leaf("A", ("A" :> 0)),
      Leaf("", NilMap), Leaf("C", ("A" :> 1 @@ "B" :> 1 @@ "C" :> 1)),
      Leaf("", ("" :> 2)) }

\* One split over two leaves: each predicate, pivots of each type, each order
\* of the two counts, and a child left out.
Stumps ==
    { Flawed(Internal("x", predName, pivot, c[1], c[2], LeafA, LeafB), flaw) :
        predName \in {"==", ">="}, pivot \in {Num(2), IntV(2), Str("a"), Nil},
        c \in {<<2, 1>>, <<1, 1>>, <<1, 2>>}, flaw \in {"none", "Match", "NoMatch"} }

\* Two splits, each with one flaw or none, over leaves with and without counts.
Shrubs ==
    { Flawed(Internal("x", "==", Str("a"), 2, 1,
                      Flawed(Internal("y", ">=", Num(2), 1, 1, l1, LeafB), f2), l2), f1) :
        f1 \in Flaws, f2 \in Flaws, l1 \in {LeafA, Leaf("A", NilMap)},
        l2 \in {LeafB, Leaf("", NilMap)} }

BadConfigs ==
    { Cfg("", <<>>, 0, 0), Cfg("label", <<>>, -1, 0), Cfg("label", <<>>, 0, -1),
      Cfg("", <<>>, -1, -1), Cfg("label", <<>>, -1, -1) }

BuiltModels ==
    { [Root |-> r, Config |-> Cfg("label", <<>>, 0, 0)] :
        r \in Leaves \cup Stumps \cup Shrubs }
    \cup { [Root |-> r, Config |-> c] :
             r \in {LeafA, Leaf("A", NilMap)}
                   \cup {Flawed(Internal("x", "==", Str("a"), 2, 1, LeafA, LeafB), f) :
                            f \in {"Attribute", "ClassCounts", "Match"}},
             c \in BadConfigs }

\* The records the built models are asked about: x a float64, an int, a
\* string, nil, and absent.
Probes ==
    << [x |-> Num(2)], [x |-> Num(1)], [x |-> Str("a")], [x |-> Nil],
       [y |-> Num(2)], [x |-> Str("a"), y |-> Nil] >>

\* A model built by hand is at hand, and no call has been made.
InitBuilt ==
    /\ model \in BuiltModels
    /\ cfg = model.Config
    /\ set = Probes
    /\ stack = <<>>
    /\ call = NoCall

-----------------------------------------------------------------------------
(* Calls of the library on the trained model and on the training set       *)

\* A model is at hand, returned by Train or built by hand, and it has not been
\* used yet: every run of the model makes one call on it.
Done == stack = <<>> /\ model # NoModel /\ call.op \in {"Train", "none"}

\* Before Train is called.
Fresh == stack = <<>> /\ model = NoModel /\ call = NoCall

\* The models a call is made on: the trained one, a nil *Model, and a Model
\* whose Root is nil.
Receivers == {model, NilModel, [Root |-> NilNode, Config |-> cfg]}

RowsOf(s) == {s[i] : i \in 1..Len(s)}

\* The records a prediction is asked for.
Records == RowsOf(set) \cup {Unseen, NilItem, [x |-> IntV(2)]}

\* The batches: up to MaxBatch records, nil ones among them.
BatchRecords == {NilItem, Unseen, [x |-> IntV(2)]}
Batches == UNION {[1..n -> BatchRecords] : n \in 0..MaxBatch}

\* A second run of Train(set, cfg) on the arguments of the first, whose model
\* is kept for comparison.
TrainAgain ==
    /\ Done
    /\ call.op = "Train"
    /\ call' = [op |-> "Train again", first |-> model]
    /\ model' = NoModel
    /\ stack' = <<Frame(set, 0)>>
    /\ UNCHANGED <<set, cfg>>

CallPredict ==
    /\ Done
    /\ \E m \in Receivers, item \in Records :
         \E r \in Predict(m, item) :
            call' = [op |-> "Predict", m |-> m, item |-> item, out |-> r.out, err |-> r.err]
    /\ UNCHANGED <<set, cfg, stack, model>>

CallPredictProba ==
    /\ Done
    /\ \E m \in Receivers, item \in Records :
         \E r \in PredictProba(m, item) :
            call' = [op |-> "PredictProba", m |-> m, item |-> item,
                     out |-> r.out, err |-> r.err]
    /\ UNCHANGED <<set, cfg, stack, model>>

CallPredictBatch ==
    /\ Done
    /\ \E m \in Receivers, items \in Batches :
         \E r \in PredictBatch(m, items) :
            call' = [op |-> "PredictBatch", m |-> m, items |-> items,
                     out |-> r.out, err |-> r.err]
    /\ UNCHANGED <<set, cfg, stack, model>>

CallPredictProbaBatch ==
    /\ Done
    /\ \E m \in Receivers, items \in Batches :
         \E r \in PredictProbaBatch(m, items) :
            call' = [op |-> "PredictProbaBatch", m |-> m, items |-> items,
                     out |-> r.out, err |-> r.err]
    /\ UNCHANGED <<set, cfg, stack, model>>

CallValidate ==
    /\ Done
    /\ \E m \in Receivers :
         call' = [op |-> "Validate", m |-> m, err |-> Validate(m)]
    /\ UNCHANGED <<set, cfg, stack, model>>

\* m.SaveJSON(path) followed by LoadJSON(path).
CallSaveLoad ==
    /\ Done
    /\ LET file == SaveJSON(model)
           r == LoadJSON(file)
       IN  call' = [op |-> "LoadJSON", m |-> model, file |-> file,
                    out |-> r.out, err |-> r.err]
    /\ UNCHANGED <<set, cfg, stack, model>>

\* invalidJSON of TestDecodeJSON_InvalidModel.
InvalidJSON ==
    JObj(("root" :>
            JObj(("match" :> JObj(("category" :> JStr("yes") @@ "classCounts" :> JNull))
                  @@ "noMatch" :> JNull
                  @@ "attribute" :> JStr("feature")
                  @@ "predicateName" :> JStr("==")
                  @@ "pivot" :> JStr("a")
                  @@ "classCounts" :> JObj(("yes" :> JNum(FloatUnit)))))
          @@ "config" :> JObj(("categoryAttr" :> JStr("label")))))

\* The documents DecodeJSON reads: what SaveJSON writes for the model at hand,
\* for a nil model and for a model without a root, the literals null and {},
\* a leaf whose classCounts is the empty object, and the document of the test.
Documents ==
    { SaveJSON(m) : m \in Receivers }
    \cup { JNull, JObj(EmptyMap), InvalidJSON,
           JObj(("root" :> JObj(("category" :> JStr("A") @@ "classCounts" :> JObj(EmptyMap)))
                 @@ "config" :> JObj(("categoryAttr" :> JStr("label"))))) }

\* DecodeJSON(r) on a reader that holds one document.
CallDecodeJSON ==
    /\ Done
    /\ \E doc \in Documents :
         call' = [op |-> "DecodeJSON", doc |-> doc, out |-> DecodeJSON(doc).out,
                  err |-> DecodeJSON(doc).err]
    /\ UNCHANGED <<set, cfg, stack, model>>

CallStats ==
    /\ Done
    /\ \E m \in Receivers :
         \E r \in Stats(m) : call' = [op |-> "Stats", m |-> m, out |-> r]
    /\ UNCHANGED <<set, cfg, stack, model>>

\* The pivots split is called with.
Pivots == {Num(1), Num(2), Str("a"), Bool(TRUE), Nil}

\* split(set, attr, pred, pivot), as the package's tests call it.
CallSplit ==
    /\ Fresh
    /\ \E attr \in {"x", "label"}, predName \in {"==", ">="}, pivot \in Pivots :
         call' = IF splitPanics(set, attr, predName, pivot)
                 THEN [op |-> "split", set |-> set, attr |-> attr, predName |-> predName,
                       pivot |-> pivot, out |-> ZeroSplit, err |-> Panic]
                 ELSE [op |-> "split", set |-> set, attr |-> attr, predName |-> predName,
                       pivot |-> pivot, out |-> split(set, attr, predName, pivot),
                       err |-> NoError]
    /\ UNCHANGED <<set, cfg, stack, model>>

\* entropy(set, attr), as the package's tests call it: out is the result
\* times len(set), ulp its rounding.
CallEntropy ==
    /\ Fresh
    /\ \E attr \in {"x", "label"} :
         \E u \in entropyUlps(set, attr) :
            call' = [op |-> "entropy", set |-> set, attr |-> attr,
                     out |-> entropy(set, attr), ulp |-> u]
    /\ UNCHANGED <<set, cfg, stack, model>>

Next ==
    \/ Train
    \/ EnterEmpty
    \/ EnterLeaf
    \/ EnterLoops
    \/ LoopAttr
    \/ NextItem
    \/ FinishLeaf
    \/ FinishSplit
    \/ Return
    \/ TrainAgain
    \/ CallPredict
    \/ CallPredictProba
    \/ CallPredictBatch
    \/ CallPredictProbaBatch
    \/ CallValidate
    \/ CallSaveLoad
    \/ CallSplit
    \/ CallEntropy

Spec == Init /\ [][Next]_vars

\* The calls made on a model built by hand.
NextBuilt ==
    \/ CallPredict
    \/ CallPredictProba
    \/ CallValidate
    \/ CallSaveLoad
    \/ CallDecodeJSON
    \/ CallStats

SpecBuilt == InitBuilt /\ [][NextBuilt]_vars

-----------------------------------------------------------------------------
(* Calls of the predicates on pairs of values                              *)

\* The values a record and a pivot can hold: float64, int, string, bool, nil.
Operands ==
    { Num(1), Num(2), Num(10), IntV(1), IntV(2), IntV(10), Str("a"),
      Str("not a number"), Bool(TRUE), Bool(FALSE), Nil }

InitFn ==
    /\ set = <<>>
    /\ cfg = Cfg("label", <<>>, 0, 0)
    /\ stack = <<>>
    /\ model = NoModel
    /\ call = NoCall

\* predicateGte(a, b), as TestPredicateGte_SafeTypeAssertion calls it.
CallPredicateGte ==
    /\ Fresh
    /\ \E a \in Operands, b \in Operands :
         call' = IF gtePanics(a, b)
                 THEN [op |-> "predicateGte", a |-> a, b |-> b, out |-> FALSE, err |-> Panic]
                 ELSE [op |-> "predicateGte", a |-> a, b |-> b,
                       out |-> predicateGte(a, b), err |-> NoError]
    /\ UNCHANGED <<set, cfg, stack, model>>

NextFn == CallPredicateGte

SpecFn == InitFn /\ [][NextFn]_vars

-----------------------------------------------------------------------------
(* Concurrent calls on one shared model, one node at a time                *)

\* The goroutines that share the model.
Callers == {"first", "second"}

\* The shared models: a valid tree of two splits, one with a nil child, one
\* that Validate refuses, a split whose pivot makes predicateGte panic, a leaf.
SharedModels ==
    { [Root |-> r, Config |-> Cfg("label", <<>>, 0, 0)] :
        r \in { Internal("x", "==", Str("a"), 2, 1,
                          Internal("y", ">=", Num(2), 1, 1, LeafA, LeafB), LeafB),
                Internal("x", "==", Str("a"), 2, 1,
                          Flawed(Internal("y", ">=", Num(2), 1, 1, LeafA, LeafB), "Match"),
                          LeafB),
                Internal("x", "==", Str("a"), 2, 1,
                          Flawed(Internal("y", ">=", Num(2), 1, 1, LeafA, LeafB), "Attribute"),
                          Leaf("", NilMap)),
                Internal("x", ">=", Str("a"), 1, 2, LeafA, LeafB),
                LeafA } }

\* A call that has not begun: its operation and its records.
Go(op, items) ==
    [op |-> op, items |-> items, k |-> 1, pc |-> "start", at |-> <<>>, todo |-> <<>>,
     outs |-> <<>>, stats |-> ZeroStats, out |-> <<>>, err |-> NoError]

Calls ==
    { Go(op, <<item>>) :
        op \in {"Predict", "PredictProba"},
        item \in {[x |-> Str("a")], [x |-> Num(1)], NilItem} }
    \cup { Go("PredictBatch", items) :
             items \in { <<[x |-> Str("a")], NilItem>>, <<[x |-> Num(1)], [x |-> Str("a")]>> } }
    \cup { Go("Stats", <<>>), Go("Validate", <<>>) }

InitShared ==
    /\ model \in SharedModels
    /\ cfg = model.Config
    /\ set = <<>>
    /\ stack = <<>>
    /\ \E th \in [Callers -> Calls] : call = [op |-> "concurrent", m |-> model, th |-> th]

\* The call of caller c goes on as t.
Goes(c, t) == call' = [call EXCEPT !.th[c] = t]

\* The call returns (out, err).
Finish(t, out, err) == [t EXCEPT !.pc = "done", !.out = out, !.err = err]

\* One prediction of the call ends with (out, err): the call returns, or
\* the loop of PredictBatch goes on to the next record.
Predicted(t, out, err) ==
    IF t.op # "PredictBatch" THEN Finish(t, out, err)
    ELSE IF err # NoError THEN Finish(t, t.outs, err)
    ELSE [t EXCEPT !.outs = Append(@, out), !.k = @ + 1, !.pc = "start"]

\* The statements of a call before its loop: the checks of the model and of
\* the record in Predict and PredictProba, of the Config in Validate, and
\* the first node.
Begin ==
    \E c \in Callers :
       LET t == call.th[c]
           none == IF t.op = "PredictProba" THEN NilMap ELSE ""
       IN  /\ t.pc = "start"
           /\ CASE t.op = "Stats" ->
                     IF model = NilModel \/ model.Root = NilNode
                     THEN \E r \in Stats(model) : Goes(c, Finish(t, r, NoError))
                     ELSE Goes(c, [t EXCEPT !.pc = "loop", !.todo = << <<>> >>])
                [] t.op = "Validate" ->
                     IF Validate([model EXCEPT !.Root = Leaf("", EmptyMap)]) # NoError
                     THEN Goes(c, Finish(t, <<>>,
                                  Validate([model EXCEPT !.Root = Leaf("", EmptyMap)])))
                     ELSE Goes(c, [t EXCEPT !.pc = "loop", !.todo = << <<>> >>])
                [] OTHER ->
                     IF t.k > Len(t.items) THEN Goes(c, Finish(t, t.outs, NoError))
                     ELSE IF model = NilModel THEN Goes(c, Predicted(t, none, ErrNilModel))
                     ELSE IF model.Root = NilNode THEN Goes(c, Predicted(t, none, ErrNilRoot))
                     ELSE IF t.items[t.k] = NilItem
                     THEN Goes(c, Predicted(t, none, ErrNilItem))
                     ELSE Goes(c, [t EXCEPT !.pc = "loop", !.at = <<>>])
       /\ UNCHANGED <<set, cfg, stack, model>>

\* The node of the shared model at a place: the steps from the root.
RECURSIVE NodeAt(_, _)
NodeAt(node, path) ==
    IF path = <<>> THEN node
    ELSE NodeAt(IF Head(path) = "Match" THEN node.Match ELSE node.NoMatch, Tail(path))

\* PredictVisit keeping a count of its visits in the root of the model.
PredictVisitCounting ==
    \E c \in Callers :
       LET t == call.th[c]
           node == NodeAt(model.Root, t.at)
           item == t.items[t.k]
           proba == t.op = "PredictProba"
       IN  /\ t.pc = "loop"
           /\ t.op \in {"Predict", "PredictProba", "PredictBatch"}
           /\ IF IsLeaf(node)
              THEN Goes(c, Predicted(t, IF proba THEN calculateProba(node.ClassCounts)
                                        ELSE node.Category, NoError))
              ELSE IF StepPanics(node, item)
              THEN Goes(c, Predicted(t, IF proba THEN NilMap ELSE "", Panic))
              ELSE IF nextNode(node, item) = NilNode
              THEN IF proba
                   THEN Goes(c, Predicted(t, calculateProba(node.ClassCounts), NoError))
                   ELSE \E k \in mostFrequentValue(node.ClassCounts) :
                           Goes(c, Predicted(t, k, NoError))
              ELSE Goes(c, [t EXCEPT !.at = Append(@, IF nextNode(node, item) = node.Match
                                                      THEN "Match" ELSE "NoMatch")])
       /\ model' = [model EXCEPT !.Root.MatchedCount = @ + 1]
       /\ UNCHANGED <<set, cfg, stack>>

\* One turn of `for node != nil` in Predict and PredictProba; it writes
\* nothing to the model.
PredictVisit ==
    \E c \in Callers :
       LET t == call.th[c]
           node == NodeAt(model.Root, t.at)
           item == t.items[t.k]
           proba == t.op = "PredictProba"
       IN  /\ t.pc = "loop"
           /\ t.op \in {"Predict", "PredictProba", "PredictBatch"}
           /\ IF IsLeaf(node)
              THEN Goes(c, Predicted(t, IF proba THEN calculateProba(node.ClassCounts)
                                        ELSE node.Category, NoError))
              ELSE IF StepPanics(node, item)
              THEN Goes(c, Predicted(t, IF proba THEN NilMap ELSE "", Panic))
              ELSE IF nextNode(node, item) = NilNode
              THEN IF proba
                   THEN Goes(c, Predicted(t, calculateProba(node.ClassCounts), NoError))
                   ELSE \E k \in mostFrequentValue(node.ClassCounts) :
                           Goes(c, Predicted(t, k, NoError))
              ELSE Goes(c, [t EXCEPT !.at = Append(@, IF nextNode(node, item) = node.Match
                                                      THEN "Match" ELSE "NoMatch")])
       /\ UNCHANGED <<set, cfg, stack, model>>

\* The children of the node at a place that are not nil, Match first.
ChildPlaces(node, path) ==
    (IF node.Match = NilNode THEN <<>> ELSE <<Append(path, "Match")>>)
    \o (IF node.NoMatch = NilNode THEN <<>> ELSE <<Append(path, "NoMatch")>>)

\* A node with its children replaced by leaves: what a call sees of the node
\* itself.
Alone(node) ==
    [node EXCEPT !.Match = IF @ = NilNode THEN @ ELSE Leaf("", EmptyMap),
                 !.NoMatch = IF @ = NilNode THEN @ ELSE Leaf("", EmptyMap)]

\* One call of collectStats on a node that is not nil, up to its calls on the
\* children; after the last one Stats appends the classes in map order.
StatsVisit ==
    \E c \in Callers :
       LET t == call.th[c]
       IN  /\ t.pc = "loop"
           /\ t.op = "Stats"
           /\ IF t.todo = <<>>
              THEN \E order \in [1..Cardinality(t.stats.classSet) -> t.stats.classSet] :
                     /\ \A i, k \in DOMAIN order : i # k => order[i] # order[k]
                     /\ Goes(c, Finish(t, [TreeDepth |-> t.stats.TreeDepth,
                                            TotalNodes |-> t.stats.TotalNodes,
                                            LeafNodes |-> t.stats.LeafNodes,
                                            InternalNodes |-> t.stats.InternalNodes,
                                            Classes |-> order], NoError))
              ELSE LET path == Head(t.todo)
                       node == NodeAt(model.Root, path)
                       counted == [t.stats EXCEPT
                                     !.TotalNodes = @ + 1,
                                     !.TreeDepth = IF Len(path) > @ THEN Len(path) ELSE @]
                   IN  Goes(c, [t EXCEPT
                          !.todo = ChildPlaces(node, path) \o Tail(@),
                          !.stats = IF IsLeaf(node)
                                    THEN [counted EXCEPT
                                            !.LeafNodes = @ + 1,
                                            !.classSet = IF node.Category # ""
                                                         THEN @ \cup {node.Category} ELSE @]
                                    ELSE [counted EXCEPT !.InternalNodes = @ + 1]])
       /\ UNCHANGED <<set, cfg, stack, model>>

\* One call of validateNode on a node that is not nil, up to its calls on the
\* children.
ValidateVisit ==
    \E c \in Callers :
       LET t == call.th[c]
       IN  /\ t.pc = "loop"
           /\ t.op = "Validate"
           /\ IF t.todo = <<>> THEN Goes(c, Finish(t, <<>>, NoError))
              ELSE LET path == Head(t.todo)
                       node == NodeAt(model.Root, path)
                   IN  IF validateNode(Alone(node)) # NoError
                       THEN Goes(c, Finish(t, <<>>, validateNode(Alone(node))))
                       ELSE Goes(c, [t EXCEPT !.todo = ChildPlaces(node, path) \o Tail(@)])
       /\ UNCHANGED <<set, cfg, stack, model>>

NextShared ==
    \/ Begin
    \/ PredictVisit
    \/ StatsVisit
    \/ ValidateVisit

SpecShared == InitShared /\ [][NextShared]_vars

-----------------------------------------------------------------------------
(* Properties                                                              *)

\* The input Train documents as valid: a non-empty set, a CategoryAttr that is
\* not empty and is a key of some record, no negative limit.
ValidInput ==
    /\ set # <<>>
    /\ cfg.CategoryAttr # ""
    /\ \E i \in 1..Len(set) : Has(set[i], cfg.CategoryAttr)
    /\ cfg.MaxDepth >= 0
    /\ cfg.MinSamples >= 0

\* C1: for every non-empty record set and every valid Config, the Model that
\* Train returns passes Validate (Validate returns no error on it).
C1_TrainedModelPassesValidate ==
    (call.op = "Validate" /\ call.m = model /\ ValidInput) => call.err = NoError

\* C2: for every non-empty record set and valid Config, every recursive call
\* of makeTrainingTree is made on a non-empty subset strictly smaller than its
\* caller's subset (so the recursion ends after finitely many calls).
C2_RecursionOnSmallerNonEmptySubset ==
    ValidInput =>
        \A k \in 1..(Len(stack) - 1) :
            /\ Len(stack[k].set) > 0
            /\ Len(stack[k].set) < Len(stack[k + 1].set)

\* C3: Train returns no model (it fails with an InvalidInput error, and never
\* builds a tree) when the record set is empty, CategoryAttr is empty or a key
\* of no record, MaxDepth is negative or MinSamples is negative.
C3_InvalidInputGivesNoModel ==
    ~ValidInput => (model = NoModel /\ stack = <<>>)

WeatherRun == set = Weather /\ cfg = Cfg("Play", <<>>, 0, 0)

\* C4: the model trained on the seven-row weather dataset with CategoryAttr
\* "Play" and no limits predicts, for each of the seven training rows, that
\* row's own Play label, whatever order the attributes were enumerated in.
C4_WeatherZeroTrainingError ==
    (WeatherRun /\ call.op = "Predict" /\ call.m = model
         /\ call.item \in RowsOf(Weather))
      => (call.err = NoError /\ call.out = call.item.Play.s)

\* C4 witness: Predict has returned the label of the sixth row ("no"), a row
\* that only the last split of the tree tells from the seventh.
C4_Witness ==
    /\ WeatherRun /\ call.op = "Predict" /\ call.m = model
    /\ call.item = Weather[6] /\ call.out = "no"
    /\ model.Root.NoMatch.NoMatch.Attribute = "Humidity"

UnseenCall ==
    WeatherRun /\ call.op = "Predict" /\ call.m = model /\ call.item = Unseen

\* C5: the model trained on the weather dataset predicts "yes" for
\* {Outlook: overcast, Temperature: 72.0, Humidity: 90.0, Wind: true} in every
\* run of Train.
C5_UnseenIsYes ==
    UnseenCall => (call.err = NoError /\ call.out = "yes")

\* What the code does with C5's record, for the record of C18: the prediction
\* for the unseen record is "yes" in the runs whose
\* last split (below Outlook == sunny and Wind == false) tests Outlook, and
\* "no" in the runs where it tests Humidity or Temperature; the three splits
\* have the same gain and the first attribute the runtime enumerates wins.
C5_UnseenFollowsLastSplit ==
    UnseenCall =>
        /\ call.err = NoError
        /\ model.Root.NoMatch.NoMatch.Attribute \in {"Outlook", "Humidity", "Temperature"}
        /\ call.out = IF model.Root.NoMatch.NoMatch.Attribute = "Outlook"
                      THEN "yes" ELSE "no"

\* A run in which the unseen record is predicted "no".
C5_Witness ==
    UnseenCall /\ call.out = "no" /\ model.Root.NoMatch.NoMatch.Attribute = "Temperature"

\* The records of s at the indices of I, in the order of s.
RECURSIVE Restrict(_, _)
Restrict(s, I) ==
    IF s = <<>> THEN <<>>
    ELSE LET front == Restrict(SubSeq(s, 1, Len(s) - 1), I)
         IN  IF Len(s) \in I THEN Append(front, s[Len(s)]) ELSE front

\* C6: for every subset S, attribute, predicate and pivot, split returns
\* (Match, NoMatch) that is a stable partition of S: each record of S is in
\* exactly one of the two, as many times as in S, in the order of S.
C6_SplitIsStablePartition ==
    call.op = "split" =>
        /\ call.err = NoError
        /\ \E I \in SUBSET (1..Len(call.set)) :
              /\ call.out.Match = Restrict(call.set, I)
              /\ call.out.NoMatch = Restrict(call.set, (1..Len(call.set)) \ I)

\* Two values of an attribute are the same value: the same string, the same
\* boolean, numerically equal numbers, or both absent or null.
SameValue(a, b) == toComparable(a) = toComparable(b)

\* C7: entropy(set, attr) is 0 if and only if the set is empty or every record
\* has the same value for attr; two records with different values (strings,
\* numbers, booleans, or a value against absent/null) make it positive.
C7_EntropyZeroIffOneValue ==
    call.op = "entropy" =>
        (call.out = 0
           <=> \A i, k \in 1..Len(call.set) :
                  SameValue(Get(call.set[i], call.attr), Get(call.set[k], call.attr)))

\* C8: for every model returned by Train, SaveJSON followed by LoadJSON
\* succeeds and gives a model whose Predict equals the original's on every
\* record, with CategoryAttr, MaxDepth and MinSamples preserved.
C8_RoundTripPreservesPredict ==
    (call.op = "LoadJSON" /\ ValidInput) =>
        /\ call.err = NoError
        /\ call.out # NilModel
        /\ \A r \in Records \ {NilItem} : Predict(call.out, r) = Predict(call.m, r)
        /\ call.out.Config.CategoryAttr = call.m.Config.CategoryAttr
        /\ call.out.Config.MaxDepth = call.m.Config.MaxDepth
        /\ call.out.Config.MinSamples = call.m.Config.MinSamples

\* The zero value returned with an error: "" of Predict, a nil map of
\* PredictProba.
NoPrediction(op) == IF op = "Predict" THEN Str("") ELSE [t |-> "map", s |-> "", n |-> NilMap]
Returns(op, out) == IF op = "Predict" THEN Str(out) ELSE [t |-> "map", s |-> "", n |-> out]

\* C9: Predict and PredictProba return an InvalidModel error and no
\* prediction when the model is nil or its root is nil, and an InvalidInput
\* error and no prediction when model and root are non-nil and the record is
\* nil; a nil model with a nil record reports the model error.
C9_NilModelBeforeNilRecord ==
    call.op \in {"Predict", "PredictProba"} =>
        IF call.m = NilModel
        THEN call.err = ErrNilModel /\ Returns(call.op, call.out) = NoPrediction(call.op)
        ELSE IF call.m.Root = NilNode
        THEN call.err = ErrNilRoot /\ Returns(call.op, call.out) = NoPrediction(call.op)
        ELSE IF call.item = NilItem
        THEN call.err = ErrNilItem /\ Returns(call.op, call.out) = NoPrediction(call.op)
        ELSE call.err \notin {ErrNilModel, ErrNilRoot, ErrNilItem}

\* C9 witness: Predict on a nil model with a nil record has reported the model.
C9_Witness ==
    /\ call.op = "Predict" /\ call.m = NilModel /\ call.item = NilItem
    /\ call.err = ErrNilModel

\* The index of the first nil record of a batch, Len + 1 when there is none.
FirstNil(items) ==
    IF \E i \in 1..Len(items) : items[i] = NilItem
    THEN CHOOSE i \in 1..Len(items) :
            items[i] = NilItem /\ \A k \in 1..(i - 1) : items[k] # NilItem
    ELSE Len(items) + 1

Single(op, m, item) ==
    IF op = "PredictBatch" THEN Predict(m, item) ELSE PredictProba(m, item)

\* C10: on a model that is not nil and has a root, PredictBatch and
\* PredictProbaBatch on N records whose first nil record is the k-th return
\* exactly the predictions of the records before it, in order, with a non-nil
\* error; with no nil record they return N results in order and a nil error.
C10_BatchReturnsValidPrefix ==
    (call.op \in {"PredictBatch", "PredictProbaBatch"} /\ call.m = model) =>
        LET k == FirstNil(call.items)
        IN  /\ Len(call.out) = k - 1
            /\ \A i \in 1..(k - 1) :
                  [out |-> call.out[i], err |-> NoError]
                      \in Single(call.op, call.m, call.items[i])
            /\ (call.err = NoError) <=> (k = Len(call.items) + 1)
            /\ k <= Len(call.items) => call.err = ErrNilItem

\* C10 witness: a batch of two whose second record is nil has returned the one
\* prediction of the first, and the error.
C10_Witness ==
    /\ call.op = "PredictBatch" /\ call.m = model
    /\ Len(call.items) = 2 /\ call.items[1] # NilItem /\ call.items[2] = NilItem
    /\ Len(call.out) = 1 /\ call.err = ErrNilItem

-----------------------------------------------------------------------------
(* Properties of the calls on models built by hand                         *)

\* PredictProba has returned from a leaf: the loop ended at a node with no
\* children.
ProbaAtLeaf ==
    /\ call.op = "PredictProba"
    /\ call.err = NoError
    /\ IsLeaf(Descend(call.m.Root, call.item).node)

ReachedCounts == Descend(call.m.Root, call.item).node.ClassCounts
Total(counts) == SumCounts(counts, MapKeys(counts))

\* The quotients of a distribution are the counts over one divisor that is not
\* zero and is their sum: they add up to 1, to the rounding of float64.
SumsToOne(out, counts) ==
    /\ DOMAIN out = MapKeys(counts)
    /\ Total(counts) # 0
    /\ \A k \in DOMAIN out : out[k] = <<counts[k], Total(counts)>>

\* C11: when PredictProba reaches a leaf whose class counts have a total that
\* is not zero, the probabilities it returns sum to 1; it returns the empty
\* distribution only when the class counts of the leaf are empty.
C11_EmptyOnlyForEmptyCounts ==
    ProbaAtLeaf =>
        /\ Total(ReachedCounts) # 0 => SumsToOne(call.out, ReachedCounts)
        /\ call.out = EmptyMap => MapLen(ReachedCounts) = 0

\* C11, amended: when PredictProba reaches a leaf whose class counts have a
\* total that is not zero, the probabilities it returns sum to 1; it returns
\* the empty distribution exactly when that total is zero, which a leaf with
\* counts that are all zero has as well as a leaf with no counts; no quotient
\* has the divisor zero.
C11_EmptyIffZeroTotal ==
    ProbaAtLeaf =>
        /\ Total(ReachedCounts) # 0 => SumsToOne(call.out, ReachedCounts)
        /\ call.out = EmptyMap <=> Total(ReachedCounts) = 0
        /\ call.out # NilMap
        /\ \A k \in DOMAIN call.out : call.out[k][2] # 0

\* PredictProba has reached a leaf whose counts are not empty and are all zero.
C11_Witness ==
    /\ ProbaAtLeaf
    /\ MapLen(ReachedCounts) > 0
    /\ Total(ReachedCounts) = 0
    /\ call.out = EmptyMap

\* The places of the nodes of a tree: the steps from the root, "Match" or
\* "NoMatch", that lead to a node.
RECURSIVE Paths(_)
Paths(node) ==
    IF node = NilNode THEN {}
    ELSE {<<>>} \cup {<<"Match">> \o q : q \in Paths(node.Match)}
                \cup {<<"NoMatch">> \o q : q \in Paths(node.NoMatch)}

RECURSIVE At(_, _)
At(node, path) ==
    IF path = <<>> THEN node
    ELSE At(IF Head(path) = "Match" THEN node.Match ELSE node.NoMatch, Tail(path))

\* The structural invariant of one node.
NodeOK(node) ==
    IF node.Match = NilNode /\ node.NoMatch = NilNode
    THEN node.ClassCounts # NilMap
    ELSE /\ node.Match # NilNode /\ node.NoMatch # NilNode
         /\ node.Attribute # ""
         /\ node.PredicateName \in {"==", ">="}
         /\ node.ClassCounts # NilMap

\* The structural invariants of a model.
WellFormed(m) ==
    /\ m # NilModel
    /\ m.Root # NilNode
    /\ m.Config.CategoryAttr # ""
    /\ m.Config.MaxDepth >= 0
    /\ m.Config.MinSamples >= 0
    /\ \A q \in Paths(m.Root) : NodeOK(At(m.Root, q))

\* C12: Validate returns no error if and only if the model and its root are
\* not nil, the Config has a CategoryAttr and no negative limit, every node
\* without children has class counts and every other node has both children,
\* an Attribute, the PredicateName "==" or ">=" and class counts, at every
\* depth of the tree.
C12_ValidateIffWellFormed ==
    call.op = "Validate" => (call.err = NoError <=> WellFormed(call.m))

\* Validate has refused a model whose only violations are two steps below the
\* root.
C12_Witness ==
    /\ call.op = "Validate"
    /\ call.err # NoError
    /\ call.m # NilModel /\ call.m.Root # NilNode
    /\ call.m.Config = Cfg("label", <<>>, 0, 0)
    /\ \E q \in Paths(call.m.Root) : Len(q) = 2 /\ ~NodeOK(At(call.m.Root, q))
    /\ \A q \in Paths(call.m.Root) : Len(q) < 2 => NodeOK(At(call.m.Root, q))

\* The nodes of a tree in pre-order: the node, its Match subtree, its NoMatch
\* subtree.
RECURSIVE PreOrder(_)
PreOrder(node) ==
    IF node = NilNode THEN <<>>
    ELSE <<node>> \o PreOrder(node.Match) \o PreOrder(node.NoMatch)

\* A node's own violation: what Validate says of the node over children that
\* have none.
OwnViolation(node) ==
    validateNode([node EXCEPT !.Match = IF @ = NilNode THEN @ ELSE LeafA,
                              !.NoMatch = IF @ = NilNode THEN @ ELSE LeafA])

FirstViolation(m) ==
    IF m = NilModel THEN ErrNilModel
    ELSE IF m.Root = NilNode THEN ErrNilRoot
    ELSE IF m.Config.CategoryAttr = "" THEN "model config missing categoryAttr"
    ELSE IF m.Config.MaxDepth < 0 THEN "model config has negative maxDepth"
    ELSE IF m.Config.MinSamples < 0 THEN "model config has negative minSamples"
    ELSE LET nodes == PreOrder(m.Root)
             bad == {i \in 1..Len(nodes) : OwnViolation(nodes[i]) # NoError}
         IN  IF bad = {} THEN NoError
             ELSE OwnViolation(nodes[CHOOSE i \in bad : \A k \in bad : i <= k])

\* Whether a tree holds a node with a violation of its own.
Violated(node) == \E q \in Paths(node) : OwnViolation(At(node, q)) # NoError

\* C13: of several violations Validate returns the first in the order nil
\* model, nil root, empty CategoryAttr, negative MaxDepth, negative
\* MinSamples, then the nodes of the tree in pre-order: a node before its
\* subtrees, the Match subtree before the NoMatch subtree.
C13_FirstViolationInOrder ==
    call.op = "Validate" => call.err = FirstViolation(call.m)

\* Validate has reported the violation in the Match subtree of a root whose
\* NoMatch subtree has another one and whose Config has none.
C13_Witness ==
    /\ call.op = "Validate"
    /\ call.m # NilModel /\ call.m.Root # NilNode
    /\ OwnViolation(call.m.Root) = NoError
    /\ Violated(call.m.Root.Match)
    /\ Violated(call.m.Root.NoMatch)
    /\ call.err = FirstViolation([call.m EXCEPT !.Root = @.Match])
    /\ call.err # FirstViolation([call.m EXCEPT !.Root = @.NoMatch])

\* The document a call has decoded.
DocOf == IF call.op = "LoadJSON" THEN call.file ELSE call.doc

\* C14: DecodeJSON and LoadJSON return the decoded model and a nil error when
\* the model decoded from the document has every structural invariant, and a
\* nil model and the error of Validate when it has not: a null root, a node
\* with one child.
C14_DecodeHandsOutOnlyValidModels ==
    call.op \in {"DecodeJSON", "LoadJSON"} =>
        IF WellFormed(Decode(DocOf))
        THEN call.err = NoError /\ call.out = Decode(DocOf)
        ELSE /\ call.out = NilModel
             /\ call.err = FirstViolation(Decode(DocOf))
             /\ call.err # NoError

\* DecodeJSON has refused a document whose root has a match member and no
\* noMatch member.
C14_Witness ==
    /\ call.op = "DecodeJSON"
    /\ call.doc.j = "object"
    /\ HasMember(call.doc, "root")
    /\ call.doc.f["root"].j = "object"
    /\ HasMember(call.doc.f["root"], "match")
    /\ ~HasMember(call.doc.f["root"], "noMatch")
    /\ call.out = NilModel
    /\ call.err = "internal node missing one or both children"

\* A prediction has been asked of a model with a root for a record.
Asked ==
    /\ call.op \in {"Predict", "PredictProba"}
    /\ call.m # NilModel
    /\ call.m.Root # NilNode
    /\ call.item # NilItem

\* The record has no key for the node's attribute, or the predicate is ">="
\* and the record's value is null.
NoValue(node, item) ==
    \/ node.Attribute \notin DOMAIN item
    \/ node.PredicateName = ">=" /\ item[node.Attribute] = Nil

\* The child the training records mostly went to, Match on a tie.
LargerChild(node) ==
    IF node.MatchedCount >= node.NoMatchedCount THEN node.Match ELSE node.NoMatch

\* C15: at an internal node, for a record without a key for the node's
\* attribute, or with a null value under the predicate ">=", Predict and
\* PredictProba go on as from the Match child when MatchedCount >=
\* NoMatchedCount and as from the NoMatch child otherwise, whatever the pivot:
\* the predicate is not evaluated.
C15_NoValueFollowsLargerChild ==
    (/\ Asked
     /\ ~IsLeaf(call.m.Root)
     /\ NoValue(call.m.Root, call.item)
     /\ LargerChild(call.m.Root) # NilNode) =>
        [out |-> call.out, err |-> call.err]
            \in One(call.op = "PredictProba",
                    [call.m EXCEPT !.Root = LargerChild(call.m.Root)], call.item)

\* Predict has answered for a record whose x is null at a root x >= "a" with
\* equal counts: the category of the Match leaf, which is not that of the
\* NoMatch leaf.
C15_Witness ==
    /\ Asked
    /\ call.op = "Predict"
    /\ call.m.Root.PredicateName = ">="
    /\ call.m.Root.Pivot = Str("a")
    /\ call.m.Root.MatchedCount = call.m.Root.NoMatchedCount
    /\ call.m.Root.Match = LeafA /\ call.m.Root.NoMatch = LeafB
    /\ call.item = [x |-> Nil]
    /\ call.out = "A" /\ call.err = NoError

\* The classes with the largest count.
MostFrequent(counts) ==
    {k \in MapKeys(counts) : \A o \in MapKeys(counts) : counts[o] <= counts[k]}

\* The node at which the call has found the selected child nil.
DeadEnd == Descend(call.m.Root, call.item)

\* C16: when the child selected at an internal node is nil, Predict returns a
\* most frequent class of that node's ClassCounts and PredictProba that
\* node's ClassCounts over their total, with a nil error; the other child is
\* not visited.
C16_DeadEndUsesOwnCounts ==
    (Asked /\ DeadEnd.at = "dead end") =>
        /\ call.err = NoError
        /\ call.op = "Predict" => call.out \in MostFrequent(DeadEnd.node.ClassCounts)
        /\ call.op = "PredictProba" => SumsToOne(call.out, DeadEnd.node.ClassCounts)

\* Predict has stopped at a node whose selected child is nil and has returned
\* a class that is not the category of the node's other child.
C16_Witness ==
    /\ Asked
    /\ call.op = "Predict"
    /\ DeadEnd.at = "dead end"
    /\ DeadEnd.node.Match = NilNode
    /\ IsLeaf(DeadEnd.node.NoMatch)
    /\ call.out # DeadEnd.node.NoMatch.Category
    /\ call.err = NoError

\* The places of the nodes without children.
LeafPaths(node) ==
    {q \in Paths(node) : At(node, q).Match = NilNode /\ At(node, q).NoMatch = NilNode}

\* C19: Stats returns as TotalNodes the number of nodes reachable from the
\* root, as LeafNodes the number of those without children, as InternalNodes
\* the number of the others, so that TotalNodes = LeafNodes + InternalNodes,
\* and as TreeDepth the largest depth of a node, the root at depth 0; for a
\* nil model and for a nil root every field is zero.
C19_StatsCountsNodes ==
    call.op = "Stats" =>
        IF call.m = NilModel \/ call.m.Root = NilNode
        THEN call.out = [TreeDepth |-> 0, TotalNodes |-> 0, LeafNodes |-> 0,
                         InternalNodes |-> 0, Classes |-> <<>>]
        ELSE LET root == call.m.Root
             IN  /\ call.out.TotalNodes = Cardinality(Paths(root))
                 /\ call.out.LeafNodes = Cardinality(LeafPaths(root))
                 /\ call.out.InternalNodes = Cardinality(Paths(root) \ LeafPaths(root))
                 /\ call.out.TotalNodes = call.out.LeafNodes + call.out.InternalNodes
                 /\ \E q \in Paths(root) : Len(q) = call.out.TreeDepth
                 /\ \A q \in Paths(root) : Len(q) <= call.out.TreeDepth

\* Stats has counted a tree of five nodes, three of them leaves, the deepest
\* two steps below the root.
C19_Witness ==
    /\ call.op = "Stats"
    /\ call.out.TotalNodes = 5
    /\ call.out.LeafNodes = 3
    /\ call.out.InternalNodes = 2
    /\ call.out.TreeDepth = 2

-----------------------------------------------------------------------------
(* Properties of training, continued                                       *)

\* Some candidate split of the records has an information gain above zero.
HasGain(s) ==
    \E i \in 1..Len(s) :
       \E attr \in DOMAIN s[i] :
          /\ attr # cfg.CategoryAttr
          /\ ~stringInSlice(attr, cfg.IgnoredAttributes)
          /\ LET numeric == s[i][attr].t \in {"float64", "int"}
                 sp == split(s, attr, IF numeric THEN ">=" ELSE "==",
                             IF numeric THEN F64(toFloat(s[i][attr])) ELSE s[i][attr])
             IN  entropy(s, cfg.CategoryAttr) >
                    entropy(sp.Match, cfg.CategoryAttr) + entropy(sp.NoMatch, cfg.CategoryAttr)

C18_TwoRunsSameModel ==
    (call.op = "Train again" /\ stack = <<>> /\ model # NoModel) =>
        model = call.first

-----------------------------------------------------------------------------
(* Properties of the predicates                                            *)

\* C20: predicateGte returns a boolean for every pair of a record value and
\* a pivot and never panics, and it returns false when either of the two is
\* not a number: a string, a boolean or null.
C20_PredicateGteIsTotal ==
    call.op = "predicateGte" =>
        /\ call.err = NoError
        /\ call.out \in BOOLEAN
        /\ (call.a.t \notin {"float64", "int"} \/ call.b.t \notin {"float64", "int"})
              => call.out = FALSE

-----------------------------------------------------------------------------
(* Properties of concurrent calls on a shared model                         *)

\* What the call of a caller returned.
Returned(t) == [out |-> t.out, err |-> t.err]

\* What the same call can return when it runs alone on the model m.
RunAlone(t, m) ==
    CASE t.op = "Predict" -> Predict(m, t.items[1])
      [] t.op = "PredictProba" -> PredictProba(m, t.items[1])
      [] t.op = "PredictBatch" -> PredictBatch(m, t.items)
      [] t.op = "Stats" -> {[out |-> r, err |-> NoError] : r \in Stats(m)}
      [] t.op = "Validate" -> {[out |-> <<>>, err |-> Validate(m)]}

\* C21: Predict, PredictProba, PredictBatch, Stats and Validate leave the
\* shared model as it was when the calls began, and under every interleaving
\* of two such calls each call returns a result it can return when it runs
\* alone.
C21_SharedModelIsReadOnly ==
    call.op = "concurrent" =>
       /\ model = call.m
       /\ \A c \in Callers :
             call.th[c].pc = "done" => Returned(call.th[c]) \in RunAlone(call.th[c], call.m)

\* A prediction on a missing key has returned while a call of Stats on the
\* same model is in the middle of the tree.
C21_Witness ==
    /\ call.op = "concurrent"
    /\ call.th["first"].op = "Predict"
    /\ call.th["first"].items = <<[x |-> Num(1)]>>
    /\ call.th["first"].pc = "done"
    /\ call.th["first"].out = "B"
    /\ call.th["second"].op = "Stats"
    /\ call.th["second"].pc = "loop"
    /\ call.th["second"].stats.TotalNodes = 2
    /\ call.th["second"].todo # <<>>

-----------------------------------------------------------------------------
(* Properties of routing at an equality node                                *)

\* The call is at a root that is a split with the predicate "==", and the
\* record has a key for the root's attribute.
AtEquality ==
    /\ Asked
    /\ ~IsLeaf(call.m.Root)
    /\ call.m.Root.PredicateName = "=="
    /\ Has(call.item, call.m.Root.Attribute)

\* The call went on as from the given child of the root.
WentTo(child) ==
    [out |-> call.out, err |-> call.err]
        \in One(call.op = "PredictProba", [call.m EXCEPT !.Root = child], call.item)

\* C22: at an "==" node, a record whose value for the attribute is a number
\* numerically equal to the numeric pivot is routed to Match by Predict and
\* PredictProba, whether value and pivot are integers or floats.
C22_EqualityIgnoresNumericType ==
    (/\ AtEquality
     /\ isNumeric(call.item[call.m.Root.Attribute])
     /\ isNumeric(call.m.Root.Pivot)
     /\ toFloat(call.item[call.m.Root.Attribute]) = toFloat(call.m.Root.Pivot)
     /\ call.m.Root.Match # NilNode) => WentTo(call.m.Root.Match)

\* C23: at an "==" node, a record whose key for the attribute is present
\* with a null value is routed by comparing null with the pivot: to Match
\* when the pivot is null, to NoMatch otherwise, whatever MatchedCount and
\* NoMatchedCount are; by Predict and by PredictProba.
C23_NullIsComparedUnderEquality ==
    (/\ AtEquality
     /\ call.item[call.m.Root.Attribute] = Nil
     /\ call.m.Root.Match # NilNode
     /\ call.m.Root.NoMatch # NilNode) =>
        WentTo(IF call.m.Root.Pivot = Nil THEN call.m.Root.Match ELSE call.m.Root.NoMatch)

\* PredictProba has answered for a null x at the root x == "a", to which two
\* of three training records matched: the counts of the NoMatch leaf.
C23_Witness ==
    /\ AtEquality
    /\ call.op = "PredictProba"
    /\ call.item = [x |-> Nil]
    /\ call.m.Root.Pivot = Str("a")
    /\ call.m.Root.MatchedCount = 2
    /\ call.m.Root.NoMatchedCount = 1
    /\ call.m.Root.Match = LeafA
    /\ call.m.Root.NoMatch = LeafB
    /\ call.out = calculateProba(LeafB.ClassCounts)
    /\ call.out # calculateProba(LeafA.ClassCounts)

\* Predict has answered for a null x at the root x == null, to which one of
\* three training records matched: the category of the Match leaf.
C23_WitnessNullPivot ==
    /\ AtEquality
    /\ call.op = "Predict"
    /\ call.item = [x |-> Nil]
    /\ call.m.Root.Pivot = Nil
    /\ call.m.Root.MatchedCount = 1
    /\ call.m.Root.NoMatchedCount = 2
    /\ call.m.Root.Match = LeafA
    /\ call.m.Root.NoMatch = LeafB
    /\ call.out = "A"

-----------------------------------------------------------------------------
(* Properties of the nodes of a trained tree                                *)

\* The records of s that the split of a node sends to its Match child and to
\* its NoMatch child.
MatchPart(node, s) == split(s, node.Attribute, node.PredicateName, node.Pivot).Match
NoMatchPart(node, s) == split(s, node.Attribute, node.PredicateName, node.Pivot).NoMatch

\* Some record of s holds the pivot for the attribute, an int as the float64
\* that toFloat makes of it.
HoldsPivot(node, s) ==
    \E i \in DOMAIN s :
       Has(s[i], node.Attribute) /\ toComparable(s[i][node.Attribute]) = node.Pivot

RECURSIVE SplitsOnCandidates(_, _)
SplitsOnCandidates(node, s) ==
    \/ node = NilNode
    \/ IsLeaf(node)
    \/ /\ node.Attribute # cfg.CategoryAttr
       /\ \A i \in DOMAIN cfg.IgnoredAttributes : cfg.IgnoredAttributes[i] # node.Attribute
       /\ HoldsPivot(node, s)
       /\ SplitsOnCandidates(node.Match, MatchPart(node, s))
       /\ SplitsOnCandidates(node.NoMatch, NoMatchPart(node, s))

\* C24: in the tree Train returns, the attribute of every node with children
\* is neither Config.CategoryAttr nor one of Config.IgnoredAttributes, and its
\* pivot is the value, numbers as float64, that some record of the node's
\* training subset holds for that attribute.
C24_SplitsOnlyOnCandidates ==
    model # NoModel => SplitsOnCandidates(model.Root, set)

\* Train has returned for the weather records with Outlook ignored: the root
\* has children and splits on one of the other attributes.
C24_Witness ==
    /\ model # NoModel
    /\ set = Weather
    /\ cfg.IgnoredAttributes = <<"Outlook">>
    /\ ~IsLeaf(model.Root)
    /\ model.Root.Attribute \in {"Temperature", "Humidity", "Wind"}

\* Train has returned a tree whose root has the pivot 1.0 for records none of
\* which holds the float64 1.0 for x: one holds the int 1.
C24_WitnessIntPivot ==
    /\ model # NoModel
    /\ ~IsLeaf(model.Root)
    /\ model.Root.Attribute = "x"
    /\ model.Root.Pivot = Num(1)
    /\ \A i \in DOMAIN set : Get(set[i], "x") # Num(1)
    /\ \E i \in DOMAIN set : Get(set[i], "x") = IntV(1)

\* The exact gains, times len(s), of the candidate splits of s: one for every
\* record and every attribute of it that is neither CategoryAttr nor ignored.
CandidateGains(s) ==
    { LET numeric == isNumeric(s[c[1]][c[2]])
          sp == split(s, c[2], IF numeric THEN ">=" ELSE "==",
                      IF numeric THEN F64(toFloat(s[c[1]][c[2]])) ELSE s[c[1]][c[2]])
      IN  entropy(s, cfg.CategoryAttr)
            - entropy(sp.Match, cfg.CategoryAttr) - entropy(sp.NoMatch, cfg.CategoryAttr) :
        c \in { d \in (DOMAIN s) \X (UNION {DOMAIN s[i] : i \in DOMAIN s}) :
                  /\ d[2] \in DOMAIN s[d[1]]
                  /\ d[2] # cfg.CategoryAttr
                  /\ \A i \in DOMAIN cfg.IgnoredAttributes :
                        cfg.IgnoredAttributes[i] # d[2] } }

\* C25: when makeTrainingTree makes a node with children of a subset, the
\* split it has chosen has an information gain above 0 and no candidate split
\* of the subset has a greater one; a subset none of whose candidates has a
\* gain above 0 becomes a leaf.
C25_ChosenSplitHasGreatestPositiveGain ==
    \A k \in DOMAIN stack :
       stack[k].pc \in {"match", "nomatch"} =>
          /\ stack[k].best.Gain > 0
          /\ stack[k].best.Gain \in CandidateGains(stack[k].set)
          /\ \A g \in CandidateGains(stack[k].set) : g <= stack[k].best.Gain

\* The target values of the records of s, a number as a float64, and the
\* number of records of s that hold the value v.
TargetValues(s) == {toComparable(Get(s[i], cfg.CategoryAttr)) : i \in DOMAIN s}
Holders(s, v) == Cardinality({i \in DOMAIN s : toComparable(Get(s[i], cfg.CategoryAttr)) = v})

\* The call at the top has returned a leaf for a subset that is not empty.
LeafReturned ==
    /\ stack # <<>>
    /\ Head(stack).pc = "ret"
    /\ IsLeaf(Head(stack).ret)
    /\ Len(Head(stack).set) > 0

\* C26: a leaf that makeTrainingTree returns for a non-empty subset has one
\* class count for every target value of the subset, the number of records
\* that hold it, so that the counts sum to the size of the subset; Category is
\* the key of a count that is the largest.
C26_LeafCountsRecordsPerTargetValue ==
    LeafReturned =>
       LET s == Head(stack).set
           counts == Head(stack).ret.ClassCounts
       IN  /\ counts # NilMap
           /\ MapLen(counts) = Cardinality(TargetValues(s))
           /\ \A v \in TargetValues(s) : \E k \in MapKeys(counts) : counts[k] = Holders(s, v)
           /\ SumCounts(counts, MapKeys(counts)) = Len(s)
           /\ Head(stack).ret.Category \in MapKeys(counts)
           /\ \A v \in TargetValues(s) : counts[Head(stack).ret.Category] >= Holders(s, v)

-----------------------------------------------------------------------------
(* Properties of Stats, continued                                           *)

\* The Category labels of the leaves of the tree.
LeafLabels(root) == {At(root, q).Category : q \in LeafPaths(root)}

\* C27: Classes of Stats lists each Category label of a leaf of the tree
\* once, the empty string too when it is the Category of a leaf, and nothing
\* else.
C27_ClassesAreTheLeafLabels ==
    (call.op = "Stats" /\ call.m # NilModel /\ call.m.Root # NilNode) =>
        /\ {call.out.Classes[i] : i \in DOMAIN call.out.Classes} = LeafLabels(call.m.Root)
        /\ Len(call.out.Classes) = Cardinality(LeafLabels(call.m.Root))

-----------------------------------------------------------------------------
(* Properties of the nodes of a trained tree, continued                     *)

\* The sum of the class counts of a node, 0 for a nil map.
CountsSum(node) == SumCounts(node.ClassCounts, MapKeys(node.ClassCounts))

\* C28: in the tree Train returns for a non-empty record set, every node with
\* children has MatchedCount >= 1 and NoMatchedCount >= 1, their sum is the
\* sum of the node's ClassCounts, MatchedCount is the sum of the ClassCounts
\* of the Match child and NoMatchedCount that of the NoMatch child; no node is
\* the leaf without class counts that an empty subset gives.
C28_SplitsHaveTwoNonEmptyParts ==
    (model # NoModel /\ Len(set) > 0) =>
        \A q \in Paths(model.Root) :
           LET node == At(model.Root, q)
           IN  /\ node.ClassCounts # NilMap
               /\ ~IsLeaf(node) =>
                     /\ node.MatchedCount >= 1
                     /\ node.NoMatchedCount >= 1
                     /\ node.MatchedCount + node.NoMatchedCount = CountsSum(node)
                     /\ node.MatchedCount = CountsSum(node.Match)
                     /\ node.NoMatchedCount = CountsSum(node.NoMatch)

-----------------------------------------------------------------------------
(* Properties of the calls on models that pass Validate                     *)

\* C29: on a model that passes Validate, for a record that is not nil,
\* Predict and PredictProba stop at a node without children and return that
\* leaf's Category, respectively its ClassCounts over their total, with a nil
\* error: no selected child is nil, the node's own counts are not fallen back
\* on, and the call fails in no other way.
C29_ValidModelPredictsFromLeaf ==
    (Asked /\ Validate(call.m) = NoError) =>
        /\ call.err = NoError
        /\ Descend(call.m.Root, call.item).at = "leaf"
        /\ \E q \in LeafPaths(call.m.Root) :
              IF call.op = "Predict" THEN call.out = At(call.m.Root, q).Category
              ELSE call.out = calculateProba(At(call.m.Root, q).ClassCounts)

-----------------------------------------------------------------------------
(* Properties of prediction on the training records                        *)

\* The loop of Predict goes from the node to its Match child for the record.
PredictGoesMatch(node, item) ==
    nextNode([node EXCEPT !.Match = LeafA, !.NoMatch = LeafB], item) = LeafA

\* The split of training has put the record in best.Match of the node.
TrainingPutInMatch(node, item) ==
    Apply(node.PredicateName, Get(item, node.Attribute), node.Pivot)

\* From the node down the branches training put the record in, Predict takes
\* the same branch at every node.
RECURSIVE RoutedAsTrained(_, _)
RoutedAsTrained(node, item) ==
    \/ IsLeaf(node)
    \/ /\ PredictGoesMatch(node, item) <=> TrainingPutInMatch(node, item)
       /\ RoutedAsTrained(IF TrainingPutInMatch(node, item) THEN node.Match
                          ELSE node.NoMatch, item)

\* The leaf whose training subset held the record.
RECURSIVE TrainingLeaf(_, _)
TrainingLeaf(node, item) ==
    IF IsLeaf(node) THEN node
    ELSE TrainingLeaf(IF TrainingPutInMatch(node, item) THEN node.Match ELSE node.NoMatch,
                      item)

\* C30: for the model Train has returned for a record set and every record
\* of the set, Predict takes at every node on the record's way the branch
\* into which the split of training put the record, and returns the Category
\* of the leaf whose training subset held the record; also for a record
\* without the attribute of a split or with null for it.
C30_PredictRoutesAsTrainingSplit ==
    (/\ call.op = "Predict"
     /\ call.m = model
     /\ model # NoModel
     /\ \E i \in DOMAIN set : set[i] = call.item) =>
        /\ RoutedAsTrained(model.Root, call.item)
        /\ call.err = NoError
        /\ call.out = TrainingLeaf(model.Root, call.item).Category

====
